---- MODULE Spec2Model ----
(***************************************************************************)
(* The request/response pipeline of the WorkOS client: the endpoint        *)
(* operations, WorkOs::send, the ResponseExt classifiers and the           *)
(* diagnostics helpers of core/http.rs.                                     *)
(*                                                                         *)
(* Texts are sequences of runs [ch, w, n]: n copies of the character ch,   *)
(* each w bytes long.  A fixed literal (a method name, a URL, a format     *)
(* string's constant part) is written as one run whose ch holds the whole  *)
(* literal.  Concatenation is \o.                                           *)
(***************************************************************************)
EXTENDS Integers, Sequences, FiniteSets, TLC

VARIABLES workosBuilder, workos, tracing, op, pc, request, execCount,
          transport, response, outcome, stages, log, bodyReads

vars == <<workosBuilder, workos, tracing, op, pc, request, execCount,
          transport, response, outcome, stages, log, bodyReads>>

-----------------------------------------------------------------------------
(* Option and Result values *)

None == [some |-> FALSE]

Some(v) == [some |-> TRUE, v |-> v]

Ok(v) == [ok |-> TRUE, v |-> v]

Err(e) == [ok |-> FALSE, e |-> e]

-----------------------------------------------------------------------------
(* Texts *)

Run(ch, w, n) == [ch |-> ch, w |-> w, n |-> n]

Tok(s, w) == <<Run(s, w, 1)>>

Min(a, b) == IF a <= b THEN a ELSE b

RECURSIVE ByteLen(_)
ByteLen(text) ==
    IF text = <<>> THEN 0
    ELSE Head(text).w * Head(text).n + ByteLen(Tail(text))

\* text contains part as a contiguous sub-text
Contains(text, part) ==
    \E i \in 1..(Len(text) - Len(part) + 1) :
        SubSeq(text, i, i + Len(part) - 1) = part

\* the API key occurs somewhere in the text
Mentions(text, key) == \E i \in 1..Len(text) : text[i].ch = key

-----------------------------------------------------------------------------
(* core/http.rs: truncation and sanitizing *)

MAX_BODY_LOG_BYTES == 8192

Ellipsis == Tok("...", 3)

\* the for loop of truncate_for_log, one run at a time: of the run at i the
\* loop keeps as many characters as still fit, and breaks at the first
\* character that does not
RECURSIVE TruncateLoop(_, _, _, _)
TruncateLoop(text, i, byte_count, limit) ==
    IF i > Len(text) THEN <<>>
    ELSE LET r == text[i]
             fit == Min(r.n, (limit - byte_count) \div r.w)
         IN  IF fit < r.n
             THEN IF fit > 0 THEN <<Run(r.ch, r.w, fit)>> ELSE <<>>
             ELSE <<r>> \o TruncateLoop(text, i + 1, byte_count + r.w * r.n, limit)

\* a variant: the loop stops only once the limit has been reached, so the
\* character that crosses it is kept
RECURSIVE TruncateLoopOvershooting(_, _, _, _)
TruncateLoopOvershooting(text, i, byte_count, limit) ==
    IF i > Len(text) \/ byte_count >= limit THEN <<>>
    ELSE LET r == text[i]
             fit == Min(r.n, (limit - byte_count + r.w - 1) \div r.w)
         IN  IF fit < r.n
             THEN <<Run(r.ch, r.w, fit)>>
             ELSE <<r>> \o TruncateLoopOvershooting(text, i + 1, byte_count + r.w * r.n, limit)

truncate_for_log_overshooting(text, limit) ==
    IF ByteLen(text) <= limit THEN text
    ELSE TruncateLoopOvershooting(text, 1, 0, limit) \o Ellipsis

truncate_for_log(text, limit) ==
    IF ByteLen(text) <= limit THEN text
    ELSE TruncateLoop(text, 1, 0, limit) \o Ellipsis

\* str::eq_ignore_ascii_case against "authorization", over the header names
\* of the model
to_ascii_lowercase(name) ==
    CASE name = "Authorization" -> "authorization"
      [] name = "AUTHORIZATION" -> "authorization"
      [] name = "Retry-After" -> "retry-after"
      [] OTHER -> name

eq_ignore_ascii_case(a, b) == to_ascii_lowercase(a) = to_ascii_lowercase(b)

\* a header is [name, value]; a value is [ascii, text]: HeaderValue::to_str
\* succeeds exactly on the values with ascii = TRUE
Header(name, ascii, text) == [name |-> name, value |-> [ascii |-> ascii, text |-> text]]

Redacted == Tok("<redacted>", 10)

NonUtf8Value == Tok("<non-utf8-value>", 16)

\* a variant: a header whose value is not text is left out
sanitize_headers_skipping_non_text(headers) ==
    LET kept == SelectSeq(headers,
                    LAMBDA h : eq_ignore_ascii_case(h.name, "authorization") \/ h.value.ascii)
    IN  [i \in 1..Len(kept) |->
            [name |-> kept[i].name,
             value |-> IF eq_ignore_ascii_case(kept[i].name, "authorization")
                       THEN Redacted
                       ELSE kept[i].value.text]]

\* a variant: a text value is written as Debug writes it, in quotes
sanitize_headers_quoting(headers) ==
    [i \in 1..Len(headers) |->
        [name |-> headers[i].name,
         value |-> IF eq_ignore_ascii_case(headers[i].name, "authorization")
                   THEN Redacted
                   ELSE IF headers[i].value.ascii
                        THEN Tok("\"", 1) \o headers[i].value.text \o Tok("\"", 1)
                        ELSE NonUtf8Value]]

sanitize_headers(headers) ==
    [i \in 1..Len(headers) |->
        [name |-> headers[i].name,
         value |-> IF eq_ignore_ascii_case(headers[i].name, "authorization")
                   THEN Redacted
                   ELSE IF headers[i].value.ascii
                        THEN headers[i].value.text
                        ELSE NonUtf8Value]]

NonReplayableBody == Tok("<non-replayable body>", 21)

\* String::from_utf8_lossy over run-length bytes: a byte 0xFF is never part
\* of a UTF-8 sequence, so every one of them becomes one U+FFFD (3 bytes)
from_utf8_lossy(bytes) ==
    [i \in 1..Len(bytes) |->
        IF bytes[i].ch = "<0xFF>" THEN Run("<U+FFFD>", 3, bytes[i].n) ELSE bytes[i]]

\* a variant: a streaming body has no preview
extract_request_body_without_placeholder(body) ==
    IF body.bytes.some
    THEN Some(truncate_for_log(from_utf8_lossy(body.bytes.v), MAX_BODY_LOG_BYTES))
    ELSE None

\* a request body is [bytes: Option<Bytes>]: Body::as_bytes is None for a stream
extract_request_body(body) ==
    IF body.bytes.some
    THEN Some(truncate_for_log(from_utf8_lossy(body.bytes.v), MAX_BODY_LOG_BYTES))
    ELSE Some(NonReplayableBody)

\* workos.rs:57, request.body().and_then(extract_request_body)
request_body_preview(req) ==
    IF req.body.some THEN extract_request_body(req.body.v) ELSE None

-----------------------------------------------------------------------------
(* Statuses, URLs, errors *)

UNAUTHORIZED == 401

TOO_MANY_REQUESTS == 429

BAD_REQUEST == 400

FORBIDDEN == 403

NOT_FOUND == 404

\* StatusCode::is_success
is_success(status) == status >= 200 /\ status < 300

\* Response::error_for_status_ref: an error for 4xx and 5xx only
is_client_or_server_error(status) == status >= 400 /\ status < 600

\* a literal piece of a message; messages are never truncated, so the width
\* of a literal is not used
Lit(s) == Tok(s, 1)

\* Display of StatusCode: the code and its canonical reason
StatusText(status) ==
    CASE status = 200 -> Lit("200 OK")
      [] status = 204 -> Lit("204 No Content")
      [] status = 304 -> Lit("304 Not Modified")
      [] status = 400 -> Lit("400 Bad Request")
      [] status = 401 -> Lit("401 Unauthorized")
      [] status = 403 -> Lit("403 Forbidden")
      [] status = 404 -> Lit("404 Not Found")
      [] status = 429 -> Lit("429 Too Many Requests")
      [] status = 500 -> Lit("500 Internal Server Error")
      [] OTHER -> Lit("<status>")

\* a URL is [base, path]; Display writes both
UrlText(url) == Lit(url.base) \o Lit(url.path)

\* Url::join fails on a base that cannot be a base (mailto:, data:, ...)
cannot_be_a_base(base) == base = "mailto:ops@example.com"

join(base, path) ==
    IF cannot_be_a_base(base) THEN Err("RelativeUrlWithCannotBeABaseBase")
    ELSE Ok([base |-> base, path |-> path])

\* a reqwest::Error: its kind, the URL it carries, its Display text and the
\* Display texts of its sources
ReqwestError(kind, url, display, chain) ==
    [kind |-> kind, url |-> url, display |-> display, chain |-> chain]

Unauthorized == [variant |-> "Unauthorized"]

RateLimited(retry_after) == [variant |-> "RateLimited", retry_after |-> retry_after]

UrlParseError(e) == [variant |-> "UrlParseError", error |-> e]

Operation(e) == [variant |-> "Operation", error |-> e]

\* RequestError::new / RequestError::with_source inside WorkOsError::RequestError
RequestError(message, source) ==
    [variant |-> "RequestError", message |-> message, source |-> source]

\* a variant: the cause is written into the message but not kept as source
RequestErrorFromWithoutSource(error) ==
    RequestError(
        IF error.url.some
        THEN Lit("request to ") \o UrlText(error.url.v) \o Lit(" failed: ") \o error.display
        ELSE Lit("request failed: ") \o error.display,
        None)

\* impl From<ReqwestError> for RequestError, then for WorkOsError
RequestErrorFrom(error) ==
    RequestError(
        IF error.url.some
        THEN Lit("request to ") \o UrlText(error.url.v) \o Lit(" failed: ") \o error.display
        ELSE Lit("request failed: ") \o error.display,
        Some(error))

-----------------------------------------------------------------------------
(* core/http.rs: the response context and the diagnostic records *)

ResponseLogContext(method, url, response_headers, duration) ==
    [method |-> method, url |-> url, response_headers |-> response_headers,
     duration |-> duration]

\* a variant: the context is not kept on the response
store_response_context_dropped(resp, context) == resp

store_response_context(resp, context) == [resp EXCEPT !.context = Some(context)]

response_context(resp) == resp.context

log_request(method, url, headers, body) ==
    [event |-> "sending request", method |-> method, url |-> url,
     request_headers |-> headers,
     request_body |-> IF body.some THEN body.v ELSE Lit("<empty>")]

log_request_failure(method, url, headers, body, duration, err, error_causes, error_hint) ==
    [event |-> "request failed", method |-> method, url |-> url,
     request_headers |-> headers,
     request_body |-> IF body.some THEN body.v ELSE Lit("<empty>"),
     elapsed |-> duration, error |-> err.display, error_kind |-> err.kind,
     error_chain |-> error_causes, error_hint |-> error_hint]

log_response_success(method, url, status, headers, duration) ==
    [event |-> "received response", method |-> method, url |-> url,
     status |-> status, response_headers |-> headers, elapsed |-> duration]

log_response_status(method, url, status, headers, duration) ==
    [event |-> "received non-success response", method |-> method, url |-> url,
     status |-> status, response_headers |-> headers, elapsed |-> duration]

log_response_unauthorized(method, url, status, headers, duration) ==
    [event |-> "unauthorized response", method |-> method, url |-> url,
     status |-> status, response_headers |-> headers, elapsed |-> duration]

log_response_error_with_body(method, url, status, headers, body, duration) ==
    [event |-> "error response", method |-> method, url |-> url,
     status |-> status, response_headers |-> headers, response_body |-> body,
     elapsed |-> duration]

log_response_error_body_failed(method, url, status, headers, error, duration) ==
    [event |-> "error response (body unavailable)", method |-> method, url |-> url,
     status |-> status, response_headers |-> headers, error |-> error,
     elapsed |-> duration]

-----------------------------------------------------------------------------
(* core/http.rs: the error chain and the hint *)

\* the while loop of collect_error_chain over the sources, in cause order
RECURSIVE CollectLoop(_, _)
CollectLoop(sources, chain) ==
    IF sources = <<>> THEN chain
    ELSE IF chain # <<>> /\ chain[Len(chain)] = Head(sources)
         THEN CollectLoop(Tail(sources), chain)
         ELSE CollectLoop(Tail(sources), Append(chain, Head(sources)))

\* a variant: a message is left out when it is anywhere in the chain already
RECURSIVE CollectDistinctLoop(_, _)
CollectDistinctLoop(sources, chain) ==
    IF sources = <<>> THEN chain
    ELSE IF \E i \in 1..Len(chain) : chain[i] = Head(sources)
         THEN CollectDistinctLoop(Tail(sources), chain)
         ELSE CollectDistinctLoop(Tail(sources), Append(chain, Head(sources)))

collect_error_chain_distinct(err) == CollectDistinctLoop(err.chain, <<>>)

collect_error_chain(err) == CollectLoop(err.chain, <<>>)

\* the phrases of derive_error_hint that the lower-cased message contains
PhrasesOf(message) ==
    CASE message = "operation timed out" -> {"timed out"}
      [] message = "dns error: failed to lookup address information" ->
             {"dns error", "failed to lookup address information"}
      [] message = "Connection refused (os error 111)" -> {"connection refused"}
      [] message = "certificate verify failed" -> {"certificate verify failed"}
      [] message = "unregistered scheme" -> {"unregistered scheme"}
      [] message = "Operation Timed Out" -> {"timed out"}
      [] message = "failed to resolve host" -> {"failed to resolve"}
      [] message = "SSL routines: unable to get local issuer certificate" ->
             {"unable to get local issuer certificate"}
      [] message = "OSSL_STORE_get0_loader_int: unregistered scheme" ->
             {"ossl_store_get0_loader_int", "unregistered scheme"}
      [] OTHER -> {}

\* combined.contains(phrase), combined being the lower-cased join of the messages
CombinedContains(messages, phrase) ==
    \E i \in 1..Len(messages) : \E j \in 1..Len(messages[i]) :
        phrase \in PhrasesOf(messages[i][j].ch)

\* a variant: the DNS rule is tried before the timeout rule
derive_error_hint_dns_first(err, chain) ==
    LET messages == <<err.display>> \o chain
    IN  IF \/ CombinedContains(messages, "dns error")
           \/ CombinedContains(messages, "failed to lookup address information")
           \/ CombinedContains(messages, "failed to resolve")
        THEN Some("DNS resolution failed for the WorkOS endpoint")
        ELSE IF err.kind = "timeout" \/ CombinedContains(messages, "timed out")
        THEN Some("Connection timed out while contacting WorkOS")
        ELSE IF CombinedContains(messages, "connection refused")
        THEN Some("Remote host refused the TCP connection")
        ELSE IF \/ CombinedContains(messages, "certificate verify failed")
                \/ CombinedContains(messages, "unable to get local issuer certificate")
        THEN Some("TLS certificate verification failed; ensure the trust store is available")
        ELSE IF \/ CombinedContains(messages, "ossl_store_get0_loader_int")
                \/ CombinedContains(messages, "unregistered scheme")
        THEN Some("OpenSSL certificate store loader is unavailable; check OpenSSL providers/config")
        ELSE None

derive_error_hint(err, chain) ==
    LET messages == <<err.display>> \o chain
    IN  IF err.kind = "timeout" \/ CombinedContains(messages, "timed out")
        THEN Some("Connection timed out while contacting WorkOS")
        ELSE IF \/ CombinedContains(messages, "dns error")
                \/ CombinedContains(messages, "failed to lookup address information")
                \/ CombinedContains(messages, "failed to resolve")
        THEN Some("DNS resolution failed for the WorkOS endpoint")
        ELSE IF CombinedContains(messages, "connection refused")
        THEN Some("Remote host refused the TCP connection")
        ELSE IF \/ CombinedContains(messages, "certificate verify failed")
                \/ CombinedContains(messages, "unable to get local issuer certificate")
        THEN Some("TLS certificate verification failed; ensure the trust store is available")
        ELSE IF \/ CombinedContains(messages, "ossl_store_get0_loader_int")
                \/ CombinedContains(messages, "unregistered scheme")
        THEN Some("OpenSSL certificate store loader is unavailable; check OpenSSL providers/config")
        ELSE None

-----------------------------------------------------------------------------
(* core/response.rs: the classifiers.  A classifier returns                *)
(* [result, reads, logs]: its Result, how many times it read the response  *)
(* body, and the diagnostic records it handed to the sink.                  *)

Classified(result, reads, logs) == [result |-> result, reads |-> reads, logs |-> logs]

\* the error Response::text / Response::json returns when the body cannot be read
BodyReadError(resp) ==
    ReqwestError("body", Some(resp.url), Lit("error reading a body from connection"), <<>>)

\* the error Response::json returns when the body is not the expected JSON
DecodeError(resp) ==
    ReqwestError("decode", Some(resp.url), Lit("error decoding response body"), <<>>)

\* the error of Response::error_for_status_ref
StatusError(resp) ==
    ReqwestError("status", Some(resp.url),
                 Lit("HTTP status error (") \o StatusText(resp.status) \o Lit(")"), <<>>)

\* a variant: the status left out of the message
format_error_message_without_status(method, url, status, body) ==
    IF body = <<>>
    THEN Lit(method) \o Lit(" ") \o UrlText(url) \o Lit(" returned with empty body")
    ELSE Lit(method) \o Lit(" ") \o UrlText(url) \o Lit(" returned with body: ") \o body

format_error_message(method, url, status, body) ==
    IF body = <<>>
    THEN Lit(method) \o Lit(" ") \o UrlText(url) \o Lit(" returned ") \o StatusText(status)
         \o Lit(" with empty body")
    ELSE Lit(method) \o Lit(" ") \o UrlText(url) \o Lit(" returned ") \o StatusText(status)
         \o Lit(" with body: ") \o body

\* a variant: the context is unwrapped, which panics when there is none
build_request_error_from_context(context, fallback_url, fallback_headers, status, body) ==
    IF context.some
    THEN Classified(
            Err(RequestError(
                format_error_message(context.v.method, context.v.url, status, body), None)),
            1,
            <<log_response_error_with_body(context.v.method, context.v.url, status,
                                           context.v.response_headers, body,
                                           context.v.duration)>>)
    ELSE Classified(Err([variant |-> "panic"]), 1, <<>>)

build_request_error_from_body(context, fallback_url, fallback_headers, status, body) ==
    IF context.some
    THEN Classified(
            Err(RequestError(
                format_error_message(context.v.method, context.v.url, status, body), None)),
            1,
            <<log_response_error_with_body(context.v.method, context.v.url, status,
                                           context.v.response_headers, body,
                                           context.v.duration)>>)
    ELSE Classified(
            Err(RequestError(
                format_error_message("UNKNOWN", fallback_url, status, body), None)),
            1,
            <<log_response_error_with_body("UNKNOWN", fallback_url, status,
                                           fallback_headers, body, 0)>>)

\* a variant: the read failure is propagated as `?` would propagate it
response_to_request_error_propagating(resp) ==
    LET status == resp.status
        context == response_context(resp)
        fallback_url == resp.url
        fallback_headers == sanitize_headers(resp.headers)
    IN  IF resp.body.readable
        THEN build_request_error_from_body(
                 context, fallback_url, fallback_headers, status,
                 truncate_for_log(resp.body.text, MAX_BODY_LOG_BYTES))
        ELSE Classified(Err(RequestErrorFrom(BodyReadError(resp))), 1, <<>>)

response_to_request_error(resp) ==
    LET status == resp.status
        context == response_context(resp)
        fallback_url == resp.url
        fallback_headers == sanitize_headers(resp.headers)
    IN  IF resp.body.readable
        THEN build_request_error_from_body(
                 context, fallback_url, fallback_headers, status,
                 truncate_for_log(resp.body.text, MAX_BODY_LOG_BYTES))
        ELSE LET err == BodyReadError(resp)
                 method == IF context.some THEN context.v.method ELSE "UNKNOWN"
                 url_ref == IF context.some THEN context.v.url ELSE fallback_url
                 headers_ref == IF context.some THEN context.v.response_headers
                                ELSE fallback_headers
                 duration == IF context.some THEN context.v.duration ELSE 0
             IN  Classified(
                     Err(RequestError(
                         Lit(method) \o Lit(" ") \o UrlText(url_ref) \o Lit(" returned ")
                         \o StatusText(status)
                         \o Lit(" but the response body could not be read: ")
                         \o err.display,
                         Some(err))),
                     1,
                     <<log_response_error_body_failed(method, url_ref, status,
                                                      headers_ref, err.display, duration)>>)

\* a variant: 403 taken for the unauthorized status
handle_forbidden_error(resp) ==
    IF resp.status = FORBIDDEN
    THEN Classified(Err(Unauthorized), 0, <<>>)
    ELSE Classified(Ok(resp), 0, <<>>)

handle_unauthorized_error(resp) ==
    IF resp.status = UNAUTHORIZED
    THEN LET context == response_context(resp)
         IN  Classified(
                 Err(Unauthorized), 0,
                 IF context.some
                 THEN <<log_response_unauthorized(context.v.method, context.v.url,
                            resp.status, context.v.response_headers, context.v.duration)>>
                 ELSE <<log_response_unauthorized("UNKNOWN", resp.url, resp.status,
                            sanitize_headers(resp.headers), 0)>>)
    ELSE Classified(Ok(resp), 0, <<>>)

\* a variant: only 200 taken for success
handle_generic_error_only_200(resp) ==
    IF resp.status = 200
    THEN Classified(Ok(resp), 0, <<>>)
    ELSE response_to_request_error(resp)

handle_generic_error(resp) ==
    IF is_success(resp.status)
    THEN Classified(Ok(resp), 0, <<>>)
    ELSE response_to_request_error(resp)

\* the outcome of `first?` followed by a second classifier that returned
\* `second`: the reads and records of both, the result of the second
Sequel(first, second) ==
    Classified(second.result, first.reads + second.reads, first.logs \o second.logs)

\* a variant: the generic check first, the unauthorized check after it
handle_generic_or_unauthorized_error(resp) ==
    LET first == handle_generic_error(resp)
    IN  IF first.result.ok
        THEN Sequel(first, handle_unauthorized_error(first.result.v))
        ELSE first

handle_unauthorized_or_generic_error(resp) ==
    LET first == handle_unauthorized_error(resp)
    IN  IF first.result.ok
        THEN Sequel(first, handle_generic_error(first.result.v))
        ELSE first

-----------------------------------------------------------------------------
(* Response bodies as JSON.  A body is [readable, text, json]; json names  *)
(* what the text is: "value" (the payload the endpoint returns),           *)
(* "invalid_client" / "unauthorized_client" / "sso_required" (an error     *)
(* body tagged by an `error` field with that value), "code_error" (an      *)
(* error body tagged by a `code` field) or "none" (no JSON the library     *)
(* declares).                                                               *)

Decodes(json, target) ==
    CASE target = "value" -> json = "value"
      [] target = "AuthenticateError" ->
             json \in {"invalid_client", "unauthorized_client", "sso_required",
                       "code_error"}
      [] target = "CreatePasswordResetError" -> json = "code_error"
      [] target = "ResetPasswordError" -> json = "code_error"
      [] target = "EnrollAuthFactorError" -> FALSE
      [] OTHER -> FALSE

\* Response::json::<T>: read the whole body, then decode it
json_as(resp, target) ==
    IF ~resp.body.readable THEN Err(BodyReadError(resp))
    ELSE IF Decodes(resp.body.json, target)
         THEN Ok([type |-> target, json |-> resp.body.json])
         ELSE Err(DecodeError(resp))

-----------------------------------------------------------------------------
(* The classifiers the endpoints declare themselves *)

\* a variant: the client errors of a 403 body taken for Unauthorized as well
handle_authenticate_error_alike(resp) ==
    IF ~is_client_or_server_error(resp.status)
    THEN Classified(Ok(resp), 0, <<>>)
    ELSE IF resp.status \in {BAD_REQUEST, FORBIDDEN}
    THEN LET authenticate_error == json_as(resp, "AuthenticateError")
         IN  IF ~authenticate_error.ok
             THEN Classified(Err(RequestErrorFrom(authenticate_error.e)), 1, <<>>)
             ELSE IF authenticate_error.v.json \in {"invalid_client", "unauthorized_client"}
                  THEN Classified(Err(Unauthorized), 1, <<>>)
                  ELSE Classified(Err(Operation(authenticate_error.v)), 1, <<>>)
    ELSE Classified(Err(RequestErrorFrom(StatusError(resp))), 0, <<>>)

handle_authenticate_error(resp) ==
    IF ~is_client_or_server_error(resp.status)
    THEN Classified(Ok(resp), 0, <<>>)
    ELSE IF resp.status = BAD_REQUEST
    THEN LET authenticate_error == json_as(resp, "AuthenticateError")
         IN  IF ~authenticate_error.ok
             THEN Classified(Err(RequestErrorFrom(authenticate_error.e)), 1, <<>>)
             ELSE IF authenticate_error.v.json \in {"invalid_client", "unauthorized_client"}
                  THEN Classified(Err(Unauthorized), 1, <<>>)
                  ELSE Classified(Err(Operation(authenticate_error.v)), 1, <<>>)
    ELSE IF resp.status = FORBIDDEN
    THEN LET authenticate_error == json_as(resp, "AuthenticateError")
         IN  IF ~authenticate_error.ok
             THEN Classified(Err(RequestErrorFrom(authenticate_error.e)), 1, <<>>)
             ELSE Classified(Err(Operation(authenticate_error.v)), 1, <<>>)
    ELSE Classified(Err(RequestErrorFrom(StatusError(resp))), 0, <<>>)

handle_create_password_reset_error(resp) ==
    IF ~is_client_or_server_error(resp.status)
    THEN Classified(Ok(resp), 0, <<>>)
    ELSE IF resp.status = NOT_FOUND
    THEN LET error == json_as(resp, "CreatePasswordResetError")
         IN  IF ~error.ok
             THEN Classified(Err(RequestErrorFrom(error.e)), 1, <<>>)
             ELSE Classified(Err(Operation(error.v)), 1, <<>>)
    ELSE Classified(Err(RequestErrorFrom(StatusError(resp))), 0, <<>>)

handle_enroll_auth_factor_error(resp) ==
    IF ~is_client_or_server_error(resp.status)
    THEN Classified(Ok(resp), 0, <<>>)
    ELSE IF resp.status = BAD_REQUEST
    THEN LET error == json_as(resp, "EnrollAuthFactorError")
         IN  IF ~error.ok
             THEN Classified(Err(RequestErrorFrom(error.e)), 1, <<>>)
             ELSE Classified(Err(Operation(error.v)), 1, <<>>)
    ELSE Classified(Err(RequestErrorFrom(StatusError(resp))), 0, <<>>)

handle_reset_password_error(resp) ==
    IF is_success(resp.status)
    THEN Classified(Ok(resp), 0, <<>>)
    ELSE IF resp.status \in {BAD_REQUEST, NOT_FOUND}
    THEN LET error == json_as(resp, "ResetPasswordError")
         IN  IF ~error.ok
             THEN Classified(Err(RequestErrorFrom(error.e)), 1, <<>>)
             ELSE Classified(Err(Operation(error.v)), 1, <<>>)
    ELSE response_to_request_error(resp)

-----------------------------------------------------------------------------
(* The endpoint operations: how each builds its request (method, path,     *)
(* where the API key goes, JSON body or not), whether it dispatches        *)
(* through WorkOs::send ("send") or calls the transport's own send         *)
(* ("direct"), which classifier it applies and whether it decodes a        *)
(* payload.                                                                 *)

generate_portal_link ==
    [name |-> "admin_portal::generate_portal_link", via |-> "send", auth |-> "bearer",
     handler |-> "unauthorized_or_generic", method |-> "POST",
     path |-> "/portal/generate_link",
     json_body |-> TRUE, decode |-> TRUE]

delete_directory ==
    [name |-> "directory_sync::delete_directory", via |-> "send", auth |-> "bearer",
     handler |-> "unauthorized_or_generic", method |-> "DELETE",
     path |-> "/directories/{id}",
     json_body |-> FALSE, decode |-> FALSE]

get_directory ==
    [name |-> "directory_sync::get_directory", via |-> "direct", auth |-> "bearer",
     handler |-> "unauthorized_or_generic", method |-> "GET",
     path |-> "/directories/{id}",
     json_body |-> FALSE, decode |-> TRUE]

get_directory_user ==
    [name |-> "directory_sync::get_directory_user", via |-> "direct", auth |-> "bearer",
     handler |-> "unauthorized_or_generic", method |-> "GET",
     path |-> "/directory_users/{id}",
     json_body |-> FALSE, decode |-> TRUE]

create_organization ==
    [name |-> "organizations::create_organization", via |-> "direct", auth |-> "bearer",
     handler |-> "unauthorized_or_generic", method |-> "POST",
     path |-> "/organizations",
     json_body |-> TRUE, decode |-> TRUE]

delete_organization ==
    [name |-> "organizations::delete_organization", via |-> "direct", auth |-> "bearer",
     handler |-> "unauthorized_or_generic", method |-> "DELETE",
     path |-> "/organizations/{id}",
     json_body |-> FALSE, decode |-> FALSE]

organizations_update_external_id ==
    [name |-> "organizations::update_external_id", via |-> "send", auth |-> "bearer",
     handler |-> "unauthorized_or_generic", method |-> "PUT",
     path |-> "/organizations/{organization_id}",
     json_body |-> TRUE, decode |-> TRUE]

update_organization ==
    [name |-> "organizations::update_organization", via |-> "direct", auth |-> "bearer",
     handler |-> "unauthorized_or_generic", method |-> "PUT",
     path |-> "/organizations/{id}",
     json_body |-> TRUE, decode |-> TRUE]

list_organization_roles ==
    [name |-> "roles::list_organization_roles", via |-> "direct", auth |-> "bearer",
     handler |-> "unauthorized_or_generic", method |-> "GET",
     path |-> "/organizations/{}/roles",
     json_body |-> FALSE, decode |-> TRUE]

authenticate_with_code ==
    [name |-> "user_management::authenticate_with_code", via |-> "send", auth |-> "client_secret",
     handler |-> "authenticate", method |-> "POST",
     path |-> "/user_management/authenticate",
     json_body |-> TRUE, decode |-> TRUE]

authenticate_with_email_verification ==
    [name |-> "user_management::authenticate_with_email_verification", via |-> "send", auth |-> "client_secret",
     handler |-> "authenticate", method |-> "POST",
     path |-> "/user_management/authenticate",
     json_body |-> TRUE, decode |-> TRUE]

authenticate_with_magic_auth ==
    [name |-> "user_management::authenticate_with_magic_auth", via |-> "send", auth |-> "client_secret",
     handler |-> "authenticate", method |-> "POST",
     path |-> "/user_management/authenticate",
     json_body |-> TRUE, decode |-> TRUE]

authenticate_with_password ==
    [name |-> "user_management::authenticate_with_password", via |-> "send", auth |-> "client_secret",
     handler |-> "authenticate", method |-> "POST",
     path |-> "/user_management/authenticate",
     json_body |-> TRUE, decode |-> TRUE]

create_magic_auth ==
    [name |-> "user_management::create_magic_auth", via |-> "direct", auth |-> "bearer",
     handler |-> "unauthorized_or_generic", method |-> "POST",
     path |-> "/user_management/magic_auth",
     json_body |-> TRUE, decode |-> TRUE]

create_organization_membership ==
    [name |-> "user_management::create_organization_membership", via |-> "send", auth |-> "bearer",
     handler |-> "unauthorized_or_generic", method |-> "POST",
     path |-> "/user_management/organization_membership",
     json_body |-> TRUE, decode |-> TRUE]

create_password_reset ==
    [name |-> "user_management::create_password_reset", via |-> "direct", auth |-> "bearer",
     handler |-> "create_password_reset", method |-> "POST",
     path |-> "/user_management/password_reset",
     json_body |-> TRUE, decode |-> TRUE]

create_user ==
    [name |-> "user_management::create_user", via |-> "send", auth |-> "bearer",
     handler |-> "unauthorized_or_generic", method |-> "POST",
     path |-> "/user_management/users",
     json_body |-> TRUE, decode |-> TRUE]

deactivate_organization_membership ==
    [name |-> "user_management::deactivate_organization_membership", via |-> "send", auth |-> "bearer",
     handler |-> "unauthorized_or_generic", method |-> "POST",
     path |-> "/user_management/organization_memberships/{membership_id}/deactivate",
     json_body |-> FALSE, decode |-> TRUE]

delete_user ==
    [name |-> "user_management::delete_user", via |-> "send", auth |-> "bearer",
     handler |-> "unauthorized_or_generic", method |-> "DELETE",
     path |-> "/user_management/users/{user_id}",
     json_body |-> FALSE, decode |-> FALSE]

enroll_auth_factor ==
    [name |-> "user_management::enroll_auth_factor", via |-> "direct", auth |-> "bearer",
     handler |-> "enroll_auth_factor", method |-> "POST",
     path |-> "/user_management/users/{}/auth_factors",
     json_body |-> TRUE, decode |-> TRUE]

get_email_verification ==
    [name |-> "user_management::get_email_verification", via |-> "send", auth |-> "bearer",
     handler |-> "unauthorized_or_generic", method |-> "GET",
     path |-> "/user_management/email_verification/{id}",
     json_body |-> FALSE, decode |-> TRUE]

get_jwks ==
    [name |-> "user_management::get_jwks", via |-> "direct", auth |-> "none",
     handler |-> "generic", method |-> "GET",
     path |-> "/sso/jwks/{client_id}",
     json_body |-> FALSE, decode |-> TRUE]

get_magic_auth ==
    [name |-> "user_management::get_magic_auth", via |-> "direct", auth |-> "bearer",
     handler |-> "unauthorized_or_generic", method |-> "GET",
     path |-> "/user_management/magic_auth/{id}",
     json_body |-> FALSE, decode |-> TRUE]

get_password_reset ==
    [name |-> "user_management::get_password_reset", via |-> "send", auth |-> "bearer",
     handler |-> "unauthorized_or_generic", method |-> "GET",
     path |-> "/user_management/password_reset/{id}",
     json_body |-> FALSE, decode |-> TRUE]

get_user ==
    [name |-> "user_management::get_user", via |-> "direct", auth |-> "bearer",
     handler |-> "unauthorized_or_generic", method |-> "GET",
     path |-> "/user_management/users/{user_id}",
     json_body |-> FALSE, decode |-> TRUE]

get_user_identities ==
    [name |-> "user_management::get_user_identities", via |-> "direct", auth |-> "bearer",
     handler |-> "unauthorized_or_generic", method |-> "GET",
     path |-> "/user_management/users/{user_id}/identities",
     json_body |-> FALSE, decode |-> TRUE]

list_organization_memberships ==
    [name |-> "user_management::list_organization_memberships", via |-> "send", auth |-> "bearer",
     handler |-> "unauthorized_or_generic", method |-> "GET",
     path |-> "/user_management/organization_memberships",
     json_body |-> FALSE, decode |-> TRUE]

list_users ==
    [name |-> "user_management::list_users", via |-> "send", auth |-> "bearer",
     handler |-> "unauthorized_or_generic", method |-> "GET",
     path |-> "/user_management/users",
     json_body |-> FALSE, decode |-> TRUE]

reset_password ==
    [name |-> "user_management::reset_password", via |-> "send", auth |-> "bearer",
     handler |-> "reset_password", method |-> "POST",
     path |-> "/user_management/password_reset/confirm",
     json_body |-> TRUE, decode |-> TRUE]

user_management_update_external_id ==
    [name |-> "user_management::update_external_id", via |-> "send", auth |-> "bearer",
     handler |-> "unauthorized_or_generic", method |-> "PUT",
     path |-> "/user_management/users/{user_id}",
     json_body |-> TRUE, decode |-> TRUE]

update_user ==
    [name |-> "user_management::update_user", via |-> "send", auth |-> "bearer",
     handler |-> "unauthorized_or_generic", method |-> "PUT",
     path |-> "/user_management/users/{user_id}",
     json_body |-> TRUE, decode |-> TRUE]

Operations ==
    {generate_portal_link, delete_directory, get_directory,
     get_directory_user, create_organization, delete_organization,
     organizations_update_external_id, update_organization, list_organization_roles,
     authenticate_with_code, authenticate_with_email_verification, authenticate_with_magic_auth,
     authenticate_with_password, create_magic_auth, create_organization_membership,
     create_password_reset, create_user, deactivate_organization_membership,
     delete_user, enroll_auth_factor, get_email_verification,
     get_jwks, get_magic_auth, get_password_reset,
     get_user, get_user_identities, list_organization_memberships,
     list_users, reset_password, user_management_update_external_id,
     update_user}

-----------------------------------------------------------------------------
(* The client, the requests the endpoints build, and what the transport    *)
(* can answer                                                               *)

MaxElapsed == 1

Durations == 0..MaxElapsed

ApiKeys == {"sk_example_123456789", "sk_another_api_key", "sk_line\nbreak"}

BaseUrls == {"https://api.workos.com", "mailto:ops@example.com"}

KeyText(key) == Tok(key, 20)

\* HeaderValue::from_str rejects control characters such as a line break
valid_header_value(key) == key # "sk_line\nbreak"

\* a variant: the bearer header left out when the request has a JSON body
RequestForWithoutBearerOnJson(o, client, url) ==
    [method |-> o.method,
     url |-> url,
     headers |->
        IF o.json_body
        THEN <<Header("content-type", TRUE, Lit("application/json"))>>
        ELSE IF o.auth = "bearer" /\ valid_header_value(client.key)
             THEN <<Header("authorization", TRUE, Lit("Bearer ") \o KeyText(client.key))>>
             ELSE <<>>,
     body |->
        IF o.json_body
        THEN Some([bytes |-> Some(
                 IF o.auth = "client_secret"
                 THEN Tok("{client_secret:", 17) \o KeyText(client.key)
                      \o Tok(",grant_type,params}", 40)
                 ELSE Tok("{params}", 40))])
        ELSE None,
     error |-> o.auth = "bearer" /\ ~valid_header_value(client.key)]

\* the RequestBuilder an endpoint hands to send: bearer_auth, json
RequestFor(o, client, url) ==
    [method |-> o.method,
     url |-> url,
     headers |->
        (IF o.auth = "bearer" /\ valid_header_value(client.key)
         THEN <<Header("authorization", TRUE, Lit("Bearer ") \o KeyText(client.key))>>
         ELSE <<>>)
        \o (IF o.json_body
            THEN <<Header("content-type", TRUE, Lit("application/json"))>>
            ELSE <<>>),
     body |->
        IF o.json_body
        THEN Some([bytes |-> Some(
                 IF o.auth = "client_secret"
                 THEN Tok("{client_secret:", 17) \o KeyText(client.key)
                      \o Tok(",grant_type,params}", 40)
                 ELSE Tok("{params}", 40))])
        ELSE None,
     error |-> o.auth = "bearer" /\ ~valid_header_value(client.key)]

\* the error RequestBuilder::build returns for a builder that holds one
BuilderError ==
    ReqwestError("builder", None, Lit("builder error"),
                 <<Lit("failed to parse header value")>>)

ConnectError(url) ==
    ReqwestError("connect", Some(url), Lit("error sending request"),
                 <<Lit("client error (Connect)"),
                   Lit("Connection refused (os error 111)"),
                   Lit("Connection refused (os error 111)")>>)

TimeoutError(url) ==
    ReqwestError("timeout", Some(url), Lit("error sending request"),
                 <<Lit("operation timed out")>>)

Statuses == {200, 204, 304, 400, 401, 403, 404, 429, 500}

RetryAfterHeaders ==
    {<<>>,
     <<Header("retry-after", TRUE, <<Run("1", 1, 1), Run(".", 1, 1), Run("5", 1, 1)>>)>>,
     <<Header("retry-after", TRUE, Lit("Wed, 21 Oct 2015 07:28:00 GMT"))>>,
     <<Header("retry-after", FALSE, Lit("<bytes>"))>>}

ResponseBodies ==
    {[readable |-> TRUE, text |-> <<>>, json |-> "none"],
     [readable |-> TRUE, text |-> Tok("{message:x}", 15), json |-> "none"],
     [readable |-> TRUE, text |-> Tok("{id:1}", 8), json |-> "value"],
     [readable |-> TRUE, text |-> Tok("{error:invalid_client}", 60), json |-> "invalid_client"],
     [readable |-> TRUE, text |-> Tok("{error:unauthorized_client}", 65),
      json |-> "unauthorized_client"],
     [readable |-> TRUE, text |-> Tok("{error:sso_required}", 58), json |-> "sso_required"],
     [readable |-> TRUE, text |-> Tok("{code:c,message:m}", 30), json |-> "code_error"],
     [readable |-> TRUE, text |-> <<Run("a", 1, MAX_BODY_LOG_BYTES - 1), Run("e'", 2, 1)>>,
      json |-> "none"],
     [readable |-> FALSE, text |-> <<>>, json |-> "none"]}

Responses(url) ==
    {[status |-> st, headers |-> h, body |-> b, url |-> url, context |-> None] :
        st \in Statuses, h \in RetryAfterHeaders, b \in ResponseBodies}

TransportOutcomes(url) ==
    {Err(ConnectError(url)), Err(TimeoutError(url))}
    \cup {Ok(r) : r \in Responses(url)}

-----------------------------------------------------------------------------
(* workos.rs: WorkOs::send *)

\* HeaderMap::get: the first value under the name
header_get(headers, name) ==
    IF \E i \in 1..Len(headers) : headers[i].name = name
    THEN Some(headers[CHOOSE i \in 1..Len(headers) :
                  /\ headers[i].name = name
                  /\ \A j \in 1..(i - 1) : headers[j].name # name].value)
    ELSE None

RECURSIVE Expand(_)
Expand(text) ==
    IF text = <<>> THEN <<>>
    ELSE [k \in 1..Head(text).n |-> Head(text).ch] \o Expand(Tail(text))

Digit(c) ==
    CASE c = "0" -> 0 [] c = "1" -> 1 [] c = "2" -> 2 [] c = "3" -> 3 [] c = "4" -> 4
      [] c = "5" -> 5 [] c = "6" -> 6 [] c = "7" -> 7 [] c = "8" -> 8 [] c = "9" -> 9
      [] OTHER -> -1

\* a decimal number mant / 10^scale, without trailing zeros in the fraction
RECURSIVE Normal(_, _)
Normal(mant, scale) ==
    IF scale > 0 /\ mant % 10 = 0 THEN Normal(mant \div 10, scale - 1)
    ELSE [mant |-> mant, scale |-> scale]

\* str::parse::<f32> on texts written with digits and one optional point
\* (the model's header values use no sign, exponent, "inf" or "nan")
RECURSIVE ParseDecimal(_, _, _, _, _, _)
ParseDecimal(chars, i, mant, scale, point, digits) ==
    IF i > Len(chars)
    THEN IF digits THEN Some(Normal(mant, scale)) ELSE None
    ELSE IF chars[i] = "."
         THEN IF point THEN None
              ELSE ParseDecimal(chars, i + 1, mant, scale, TRUE, digits)
         ELSE IF Digit(chars[i]) < 0 THEN None
              ELSE ParseDecimal(chars, i + 1, mant * 10 + Digit(chars[i]),
                                IF point THEN scale + 1 ELSE scale, point, TRUE)

parse_f32(text) == ParseDecimal(Expand(text), 1, 0, 0, FALSE, FALSE)

\* a variant: the header read as a whole number of seconds
retry_after_as_integer(resp) ==
    LET value == header_get(resp.headers, "retry-after")
        parsed == IF value.some /\ value.v.ascii THEN parse_f32(value.v.text) ELSE None
    IN  IF parsed.some /\ parsed.v.scale = 0 THEN parsed ELSE None

\* lines 105-109: headers().get(RETRY_AFTER), to_str().ok(), parse::<f32>().ok()
retry_after_of(resp) ==
    LET value == header_get(resp.headers, "retry-after")
    IN  IF ~value.some THEN None
        ELSE IF ~value.v.ascii THEN None
        ELSE parse_f32(value.v.text)

\* lines 52-63: build the request, sanitize and log it.  [result, logs]:
\* Ok(the request to execute) or the error send returns at once
send_begin(builder) ==
    IF builder.error
    THEN [result |-> Err(RequestErrorFrom(BuilderError)), logs |-> <<>>]
    ELSE LET request_headers == sanitize_headers(builder.headers)
             request_body == request_body_preview(builder)
         IN  [result |-> Ok(builder),
              logs |-> <<log_request(builder.method, builder.url,
                                     request_headers, request_body)>>]

\* a variant: send itself turns a 401 into Unauthorized
send_complete_classifying(req, executed, duration) ==
    IF ~executed.ok
    THEN [result |-> Err(RequestErrorFrom(executed.e)), logs |-> <<>>, checked |-> FALSE]
    ELSE LET resp == store_response_context(executed.v,
                        ResponseLogContext(req.method, req.url,
                                           sanitize_headers(executed.v.headers), duration))
         IN  IF executed.v.status = TOO_MANY_REQUESTS
             THEN [result |-> Err(RateLimited(retry_after_of(resp))), logs |-> <<>>,
                   checked |-> TRUE]
             ELSE IF executed.v.status = UNAUTHORIZED
             THEN [result |-> Err(Unauthorized), logs |-> <<>>, checked |-> TRUE]
             ELSE [result |-> Ok(resp), logs |-> <<>>, checked |-> TRUE]

\* a variant: the rate-limit check runs before the response is logged
send_complete_checking_first(req, executed, duration) ==
    LET method == req.method
        url == req.url
        request_headers == sanitize_headers(req.headers)
        request_body == request_body_preview(req)
    IN  IF ~executed.ok
        THEN LET err == executed.e
                 error_chain == collect_error_chain(err)
                 error_hint == derive_error_hint(err, error_chain)
             IN  [result |-> Err(RequestErrorFrom(err)),
                  logs |-> <<log_request_failure(method, url, request_headers,
                                request_body, duration, err, error_chain, error_hint)>>,
                  checked |-> FALSE]
        ELSE LET status == executed.v.status
                 response_headers == sanitize_headers(executed.v.headers)
                 resp == store_response_context(executed.v,
                            ResponseLogContext(method, url, response_headers, duration))
                 record == IF is_success(status)
                           THEN log_response_success(method, url, status,
                                                     response_headers, duration)
                           ELSE log_response_status(method, url, status,
                                                    response_headers, duration)
             IN  IF status = TOO_MANY_REQUESTS
                 THEN [result |-> Err(RateLimited(retry_after_of(resp))),
                       logs |-> <<>>, checked |-> TRUE]
                 ELSE [result |-> Ok(resp), logs |-> <<record>>, checked |-> TRUE]

\* lines 65-114: what send does with the transport's answer `executed`,
\* `duration` after it started.  [result, logs, checked]: checked tells
\* whether the rate-limit check ran
send_complete(req, executed, duration) ==
    LET method == req.method
        url == req.url
        request_headers == sanitize_headers(req.headers)
        request_body == request_body_preview(req)
    IN  IF ~executed.ok
        THEN LET err == executed.e
                 error_chain == collect_error_chain(err)
                 error_hint == derive_error_hint(err, error_chain)
             IN  [result |-> Err(RequestErrorFrom(err)),
                  logs |-> <<log_request_failure(method, url, request_headers,
                                request_body, duration, err, error_chain, error_hint)>>,
                  checked |-> FALSE]
        ELSE LET status == executed.v.status
                 response_headers == sanitize_headers(executed.v.headers)
                 resp == store_response_context(executed.v,
                            ResponseLogContext(method, url, response_headers, duration))
                 record == IF is_success(status)
                           THEN log_response_success(method, url, status,
                                                     response_headers, duration)
                           ELSE log_response_status(method, url, status,
                                                    response_headers, duration)
             IN  IF status = TOO_MANY_REQUESTS
                 THEN [result |-> Err(RateLimited(retry_after_of(resp))),
                       logs |-> <<record>>, checked |-> TRUE]
                 ELSE [result |-> Ok(resp), logs |-> <<record>>, checked |-> TRUE]

\* reqwest's RequestBuilder::send followed by `?`, as the endpoints that do
\* not go through WorkOs::send use it
direct_begin(builder) ==
    IF builder.error THEN Err(RequestErrorFrom(BuilderError)) ELSE Ok(builder)

direct_complete(executed) ==
    IF ~executed.ok THEN Err(RequestErrorFrom(executed.e)) ELSE Ok(executed.v)

\* the classifier chain an endpoint applies to the response
Handler(o, resp) ==
    LET first == handle_unauthorized_error(resp)
    IN  CASE o.handler = "unauthorized_or_generic" ->
                 handle_unauthorized_or_generic_error(resp)
          [] o.handler = "generic" -> handle_generic_error(resp)
          [] o.handler = "authenticate" -> handle_authenticate_error(resp)
          [] o.handler = "create_password_reset" ->
                 IF first.result.ok
                 THEN Sequel(first, handle_create_password_reset_error(first.result.v))
                 ELSE first
          [] o.handler = "enroll_auth_factor" ->
                 IF first.result.ok
                 THEN Sequel(first, handle_enroll_auth_factor_error(first.result.v))
                 ELSE first
          [] o.handler = "reset_password" ->
                 IF first.result.ok
                 THEN Sequel(first, handle_reset_password_error(first.result.v))
                 ELSE first

-----------------------------------------------------------------------------
(* One endpoint call at a time on a client that has been built (its        *)
(* builder is consumed).  pc is the position of the call; stages lists     *)
(* the pipeline stages that have run in it; log is the diagnostics sink,   *)
(* which receives records only when the crate is built with the tracing    *)
(* feature.                                                                 *)

Emit(records) == IF tracing THEN log \o records ELSE log

Init ==
    /\ workosBuilder = None
    /\ workos \in [base_url : BaseUrls, key : ApiKeys]
    /\ tracing \in BOOLEAN
    /\ op = None
    /\ pc = "idle"
    /\ request = None
    /\ execCount = 0
    /\ transport = None
    /\ response = None
    /\ outcome = None
    /\ stages = <<>>
    /\ log = <<>>
    /\ bodyReads = 0

\* the endpoint function up to its dispatch: join the URL, fill the builder
Call(o) ==
    /\ pc = "idle"
    /\ op' = Some(o)
    /\ stages' = <<"build">>
    /\ LET url == join(workos.base_url, o.path)
       IN  IF url.ok
           THEN /\ request' = Some(RequestFor(o, workos, url.v))
                /\ pc' = IF o.via = "send" THEN "send" ELSE "direct"
                /\ outcome' = None
           ELSE /\ request' = None
                /\ pc' = "done"
                /\ outcome' = Some(Err(UrlParseError(url.e)))
    /\ UNCHANGED <<workosBuilder, workos, tracing, execCount, transport, response, log, bodyReads>>

\* WorkOs::send up to the await on the transport
SendBegin ==
    /\ pc = "send"
    /\ stages' = Append(stages, "send")
    /\ LET begun == send_begin(request.v)
       IN  /\ log' = Emit(begun.logs)
           /\ IF begun.result.ok
              THEN pc' = "in_flight" /\ outcome' = None
              ELSE pc' = "done" /\ outcome' = Some(Err(begun.result.e))
    /\ UNCHANGED <<workosBuilder, workos, tracing, op, request, execCount, transport, response, bodyReads>>

\* the transport's own send up to its await
DirectSend ==
    /\ pc = "direct"
    /\ stages' = Append(stages, "send")
    /\ LET begun == direct_begin(request.v)
       IN  IF begun.ok
           THEN pc' = "in_flight" /\ outcome' = None
           ELSE pc' = "done" /\ outcome' = Some(Err(begun.e))
    /\ UNCHANGED <<workosBuilder, workos, tracing, op, request, execCount, transport, response, log,
                   bodyReads>>

\* the transport executes the request: it fails, or a response arrives
Transport ==
    /\ pc = "in_flight"
    /\ \E executed \in TransportOutcomes(request.v.url) : transport' = Some(executed)
    /\ execCount' = execCount + 1
    /\ pc' = "responded"
    /\ UNCHANGED <<workosBuilder, workos, tracing, op, request, response, outcome, stages, log, bodyReads>>

\* a variant: the context is attached only in a build with the tracing feature
SendFinishContextWhenTracing ==
    /\ pc = "responded"
    /\ op.v.via = "send"
    /\ \E duration \in Durations :
        LET done == send_complete(request.v, transport.v, duration)
        IN  /\ log' = Emit(done.logs)
            /\ stages' = IF done.checked THEN Append(stages, "rate_limit_check") ELSE stages
            /\ IF done.result.ok
               THEN /\ response' = Some(IF tracing THEN done.result.v ELSE transport.v.v)
                    /\ pc' = "classify"
                    /\ outcome' = None
               ELSE /\ response' = None
                    /\ pc' = "done"
                    /\ outcome' = Some(Err(done.result.e))
    /\ UNCHANGED <<workosBuilder, workos, tracing, op, request, execCount, transport, bodyReads>>

\* a variant: a rate-limited request is executed again
SendFinishRetrying ==
    /\ pc = "responded"
    /\ op.v.via = "send"
    /\ \E duration \in Durations :
        LET done == send_complete(request.v, transport.v, duration)
        IN  /\ log' = Emit(done.logs)
            /\ stages' = IF done.checked THEN Append(stages, "rate_limit_check") ELSE stages
            /\ IF done.result.ok
               THEN /\ response' = Some(done.result.v)
                    /\ pc' = "classify"
                    /\ outcome' = None
               ELSE IF done.result.e.variant = "RateLimited"
               THEN /\ response' = None
                    /\ pc' = "in_flight"
                    /\ outcome' = None
               ELSE /\ response' = None
                    /\ pc' = "done"
                    /\ outcome' = Some(Err(done.result.e))
    /\ UNCHANGED <<workosBuilder, workos, tracing, op, request, execCount, transport, bodyReads>>

\* WorkOs::send from the await to its return
SendFinish ==
    /\ pc = "responded"
    /\ op.v.via = "send"
    /\ \E duration \in Durations :
        LET done == send_complete(request.v, transport.v, duration)
        IN  /\ log' = Emit(done.logs)
            /\ stages' = IF done.checked THEN Append(stages, "rate_limit_check") ELSE stages
            /\ IF done.result.ok
               THEN /\ response' = Some(done.result.v)
                    /\ pc' = "classify"
                    /\ outcome' = None
               ELSE /\ response' = None
                    /\ pc' = "done"
                    /\ outcome' = Some(Err(done.result.e))
    /\ UNCHANGED <<workosBuilder, workos, tracing, op, request, execCount, transport, bodyReads>>

\* `.send().await?` of an endpoint that does not go through WorkOs::send
DirectFinish ==
    /\ pc = "responded"
    /\ op.v.via = "direct"
    /\ LET done == direct_complete(transport.v)
       IN  IF done.ok
           THEN /\ response' = Some(done.v)
                /\ pc' = "classify"
                /\ outcome' = None
           ELSE /\ response' = None
                /\ pc' = "done"
                /\ outcome' = Some(Err(done.e))
    /\ UNCHANGED <<workosBuilder, workos, tracing, op, request, execCount, transport, stages, log,
                   bodyReads>>

\* a variant: the classifier's error is recorded but the call goes on
ClassifyContinuing ==
    /\ pc = "classify"
    /\ stages' = Append(stages, "classify")
    /\ LET classified == Handler(op.v, response.v)
       IN  /\ log' = Emit(classified.logs)
           /\ bodyReads' = bodyReads + classified.reads
           /\ response' = response
           /\ IF classified.result.ok
              THEN IF op.v.decode
                   THEN pc' = "deserialize" /\ outcome' = None
                   ELSE pc' = "done" /\ outcome' = Some(Ok([type |-> "unit"]))
              ELSE /\ pc' = IF op.v.decode THEN "deserialize" ELSE "done"
                   /\ outcome' = Some(Err(classified.result.e))
    /\ UNCHANGED <<workosBuilder, workos, tracing, op, request, execCount, transport>>

\* the endpoint's classifier chain, `?` after it
Classify ==
    /\ pc = "classify"
    /\ stages' = Append(stages, "classify")
    /\ LET classified == Handler(op.v, response.v)
       IN  /\ log' = Emit(classified.logs)
           /\ bodyReads' = bodyReads + classified.reads
           /\ IF classified.result.ok
              THEN /\ response' = Some(classified.result.v)
                   /\ IF op.v.decode
                      THEN pc' = "deserialize" /\ outcome' = None
                      ELSE pc' = "done" /\ outcome' = Some(Ok([type |-> "unit"]))
              ELSE /\ response' = response
                   /\ pc' = "done"
                   /\ outcome' = Some(Err(classified.result.e))
    /\ UNCHANGED <<workosBuilder, workos, tracing, op, request, execCount, transport>>

\* `.json::<T>().await?` on the classified response
Deserialize ==
    /\ pc = "deserialize"
    /\ stages' = Append(stages, "deserialize")
    /\ bodyReads' = bodyReads + 1
    /\ LET decoded == json_as(response.v, "value")
       IN  outcome' = IF decoded.ok THEN Some(Ok(decoded.v))
                      ELSE Some(Err(RequestErrorFrom(decoded.e)))
    /\ pc' = "done"
    /\ UNCHANGED <<workosBuilder, workos, tracing, op, request, execCount, transport, response, log>>

\* the call has returned its outcome; the client is ready for the next call
Return ==
    /\ pc = "done"
    /\ pc' = "idle"
    /\ op' = None
    /\ request' = None
    /\ execCount' = 0
    /\ transport' = None
    /\ response' = None
    /\ outcome' = None
    /\ stages' = <<>>
    /\ log' = <<>>
    /\ bodyReads' = 0
    /\ UNCHANGED <<workosBuilder, workos, tracing>>

Next ==
    \/ \E o \in Operations : Call(o)
    \/ SendBegin
    \/ DirectSend
    \/ Transport
    \/ SendFinish
    \/ DirectFinish
    \/ Classify
    \/ Deserialize
    \/ Return

Spec == Init /\ [][Next]_vars

-----------------------------------------------------------------------------
(* Properties *)

\* the call has a transport answer that is a response with this status
Answered(status) ==
    /\ op.some /\ transport.some
    /\ transport.v.ok
    /\ transport.v.v.status = status

\* the call went through WorkOs::send and send has returned
SendReturned == op.some /\ op.v.via = "send" /\ pc \in {"classify", "deserialize", "done"}

OnePointFive == <<Run("1", 1, 1), Run(".", 1, 1), Run("5", 1, 1)>>

\* C1: for a response with status 429, WorkOs::send returns
\* Err(RateLimited{retry_after}); retry_after is Some(v) when a Retry-After
\* header is present and parses as the number v (1.5 for "1.5"), None when the
\* header is absent, is not text or does not parse; send never returns the
\* response, the classifier does not run and the body is not read.
C1_RateLimitedFrom429 ==
    (SendReturned /\ Answered(429)) =>
        LET value == header_get(transport.v.v.headers, "retry-after")
        IN  /\ pc = "done"
            /\ outcome.some /\ ~outcome.v.ok
            /\ outcome.v.e.variant = "RateLimited"
            /\ (value.some /\ value.v.ascii /\ value.v.text = OnePointFive)
                   => outcome.v.e.retry_after = Some([mant |-> 15, scale |-> 1])
            /\ (~value.some \/ ~value.v.ascii \/ value.v.text # OnePointFive)
                   => outcome.v.e.retry_after = None
            /\ response = None
            /\ stages = <<"build", "send", "rate_limit_check">>
            /\ bodyReads = 0

C1_Witness ==
    /\ SendReturned /\ Answered(429)
    /\ outcome.some /\ ~outcome.v.ok
    /\ outcome.v.e = RateLimited(Some([mant |-> 15, scale |-> 1]))

\* C2: for a response with status 401, with or without an attached context,
\* handle_unauthorized_or_generic_error returns Err(Unauthorized) and does not
\* read the body; an endpoint that applies it returns Unauthorized with the
\* body unread.
C2_UnauthorizedWithoutBodyRead ==
    (response.some /\ response.v.status = 401) =>
        /\ handle_unauthorized_or_generic_error(response.v).result = Err(Unauthorized)
        /\ handle_unauthorized_or_generic_error(response.v).reads = 0
        /\ (pc = "done" /\ op.v.handler = "unauthorized_or_generic")
               => (outcome = Some(Err(Unauthorized)) /\ bodyReads = 0)

C2_Witness ==
    /\ pc = "done"
    /\ response.some /\ response.v.status = 401
    /\ response.v.context.some
    /\ response.v.body.readable /\ response.v.body.text # <<>>
    /\ op.v.handler = "unauthorized_or_generic"
    /\ outcome = Some(Err(Unauthorized))

\* the response is one the generic classifier turns into an error after
\* reading a non-empty body
GenericErrorCase ==
    /\ response.some
    /\ ~(response.v.status >= 200 /\ response.v.status <= 299)
    /\ response.v.status # 401
    /\ response.v.body.readable
    /\ response.v.body.text # <<>>

\* kept is a prefix of text that ends between two characters
IsPrefixText(kept, text) ==
    \/ kept = <<>>
    \/ /\ Len(kept) <= Len(text)
       /\ \A i \in 1..(Len(kept) - 1) : kept[i] = text[i]
       /\ kept[Len(kept)].ch = text[Len(kept)].ch
       /\ kept[Len(kept)].w = text[Len(kept)].w
       /\ kept[Len(kept)].n >= 1
       /\ kept[Len(kept)].n <= text[Len(kept)].n

\* C3 as claimed: for a non-2xx, non-401 response with a readable non-empty
\* body, handle_generic_error returns a RequestError whose message contains
\* the request method, the URL, the status code and the literal body text.
C3_MessageHasMethodAndLiteralBody ==
    GenericErrorCase =>
        LET r == handle_generic_error(response.v).result
        IN  /\ ~r.ok /\ r.e.variant = "RequestError"
            /\ Contains(r.e.message, Lit(request.v.method))
            /\ Contains(r.e.message, UrlText(request.v.url))
            /\ Contains(r.e.message, StatusText(response.v.status))
            /\ Contains(r.e.message, response.v.body.text)

\* C3 amended: the message is "<method> <url> returned <status> with body:
\* <body>", where <method> and <url> are the request's method and URL when
\* the response carries a context, and "UNKNOWN" and the response's own URL
\* when it carries none, and <body> is the body text itself when it has at
\* most 8192 bytes and otherwise a prefix of it of at most 8192 bytes, cut
\* between two characters, followed by the ellipsis.
C3_MessageHasStatusUrlAndTruncatedBody ==
    GenericErrorCase =>
        LET r == handle_generic_error(response.v).result
            body == response.v.body.text
            head == Lit(IF response.v.context.some THEN request.v.method ELSE "UNKNOWN")
                    \o Lit(" ")
                    \o UrlText(IF response.v.context.some THEN request.v.url
                               ELSE response.v.url)
                    \o Lit(" returned ")
                    \o StatusText(response.v.status) \o Lit(" with body: ")
            message == r.e.message
            shown == SubSeq(message, Len(head) + 1, Len(message))
        IN  /\ ~r.ok /\ r.e.variant = "RequestError"
            /\ Len(message) > Len(head)
            /\ SubSeq(message, 1, Len(head)) = head
            /\ IF ByteLen(body) <= 8192
               THEN shown = body
               ELSE /\ shown[Len(shown)] = Ellipsis[1]
                    /\ IsPrefixText(SubSeq(shown, 1, Len(shown) - 1), body)
                    /\ ByteLen(SubSeq(shown, 1, Len(shown) - 1)) <= 8192
            /\ (pc = "done" /\ op.v.handler \in {"unauthorized_or_generic", "generic"})
                   => outcome = Some(r)

C3_Witness ==
    /\ GenericErrorCase
    /\ pc = "done"
    /\ op.v.handler = "generic"
    /\ ByteLen(response.v.body.text) > 8192
    /\ outcome.v.e.variant = "RequestError"
    /\ bodyReads = 1

\* C4: for a 2xx response, handle_unauthorized_error, handle_generic_error and
\* handle_unauthorized_or_generic_error each return Ok with the response they
\* were given (status, headers, body, context), without reading the body; the
\* response an endpoint decodes is the one it received.
C4_SuccessPassesThrough ==
    (response.some /\ response.v.status >= 200 /\ response.v.status <= 299) =>
        /\ handle_unauthorized_error(response.v).result = Ok(response.v)
        /\ handle_generic_error(response.v).result = Ok(response.v)
        /\ handle_unauthorized_or_generic_error(response.v).result = Ok(response.v)
        /\ handle_unauthorized_error(response.v).reads = 0
        /\ handle_generic_error(response.v).reads = 0
        /\ handle_unauthorized_or_generic_error(response.v).reads = 0
        /\ (pc = "deserialize" /\ op.v.handler \in {"unauthorized_or_generic", "generic"})
               => /\ bodyReads = 0
                  /\ response.v.status = transport.v.v.status
                  /\ response.v.headers = transport.v.v.headers
                  /\ response.v.body = transport.v.v.body

C4_Witness ==
    /\ pc = "deserialize"
    /\ response.some /\ response.v.status = 204
    /\ response.v.context.some
    /\ op.v.handler = "unauthorized_or_generic"
    /\ bodyReads = 0

\* the endpoints that do not start their classifier chain with the
\* unauthorized check
WithoutUnauthorizedCheck ==
    {get_jwks, authenticate_with_code, authenticate_with_email_verification,
     authenticate_with_magic_auth, authenticate_with_password}

\* C5 as claimed: every endpoint operation that receives a 401 response
\* returns the Unauthorized error.
C5_Every401IsUnauthorized ==
    (pc = "done" /\ Answered(401)) => outcome = Some(Err(Unauthorized))

\* C5 amended: every endpoint operation other than get_jwks and the four
\* authenticate_with_* operations returns Unauthorized for a 401 response;
\* those five return a RequestError for it.
C5_401IsUnauthorizedWhereChecked ==
    (pc = "done" /\ Answered(401)) =>
        IF op.v \in WithoutUnauthorizedCheck
        THEN outcome.some /\ ~outcome.v.ok /\ outcome.v.e.variant = "RequestError"
        ELSE outcome = Some(Err(Unauthorized))

C5_Witness ==
    /\ pc = "done" /\ Answered(401)
    /\ op.v = reset_password
    /\ outcome = Some(Err(Unauthorized))

\* C6: every endpoint operation that receives a 429 response returns the
\* rate-limited error, never a generic request error.
C6_Every429IsRateLimited ==
    (pc = "done" /\ Answered(429)) =>
        /\ outcome.some /\ ~outcome.v.ok
        /\ outcome.v.e.variant = "RateLimited"

\* the request carries Authorization: Bearer <key>
HasBearer(req, key) ==
    \E i \in 1..Len(req.headers) :
        /\ req.headers[i].name = "authorization"
        /\ req.headers[i].value.ascii
        /\ req.headers[i].value.text = Lit("Bearer ") \o Tok(key, 20)

HasAuthorization(req) ==
    \E i \in 1..Len(req.headers) : req.headers[i].name = "authorization"

\* C7 as claimed: every request an endpoint operation issues carries
\* Authorization: Bearer <api-key>, the key of the client.
C7_EveryRequestHasBearer ==
    (pc \in {"in_flight", "responded"}) => HasBearer(request.v, workos.key)

\* C7 amended: every request issued by an endpoint operation other than
\* get_jwks and the four authenticate_with_* operations carries Authorization:
\* Bearer <api-key>; the authenticate_with_* requests carry no Authorization
\* header and the key in their JSON body, and the get_jwks request carries
\* the key nowhere.
C7_BearerExceptAuthenticateAndJwks ==
    (pc \in {"in_flight", "responded"}) =>
        IF op.v \notin WithoutUnauthorizedCheck
        THEN HasBearer(request.v, workos.key)
        ELSE /\ ~HasAuthorization(request.v)
             /\ IF op.v = get_jwks
                THEN request.v.body = None
                ELSE /\ request.v.body.some
                     /\ Mentions(request.v.body.v.bytes.v, workos.key)

C7_Witness ==
    /\ pc = "responded"
    /\ op.v = organizations_update_external_id
    /\ execCount = 1
    /\ HasBearer(request.v, "sk_another_api_key")

\* C8: the transport executes the request of a call at most once; after a
\* transport failure, and after a 429 response to send, the call has returned
\* that error and the request is not executed again.
C8_ExecutedAtMostOnce ==
    /\ execCount <= 1
    /\ (pc \in {"responded", "classify", "deserialize"}) => execCount = 1
    /\ (/\ transport.some
        /\ pc # "responded"
        /\ \/ ~transport.v.ok
           \/ (transport.v.v.status = 429 /\ op.v.via = "send"))
           => /\ pc = "done"
              /\ execCount = 1
              /\ outcome.some /\ ~outcome.v.ok
              /\ outcome.v.e.variant
                     = IF transport.v.ok THEN "RateLimited" ELSE "RequestError"

C8_Witness ==
    /\ pc = "done"
    /\ execCount = 1
    /\ transport.some /\ ~transport.v.ok
    /\ op.v.via = "send"
    /\ outcome.v.e.variant = "RequestError"

StageOrder == <<"build", "send", "rate_limit_check", "classify", "deserialize">>

StageIndex(stage) == CHOOSE i \in 1..Len(StageOrder) : StageOrder[i] = stage

\* the stages that ran are stages of the pipeline, in its order, none twice
StagesInOrder ==
    /\ \A i \in 1..Len(stages) : \E j \in 1..Len(StageOrder) : StageOrder[j] = stages[i]
    /\ \A i \in 1..(Len(stages) - 1) : StageIndex(stages[i]) < StageIndex(stages[i + 1])

\* C9: a call runs the stages build, send, rate-limit check, classify,
\* deserialize at most once each and in that order; it has an outcome exactly
\* when it has ended; and once it has an outcome (an error of some stage, or
\* the value) no further stage runs and the outcome does not change until the
\* next call starts.
C9_LinearPipeline ==
    /\ [](StagesInOrder /\ (outcome.some <=> pc = "done"))
    /\ [][outcome.some => (pc' = "idle" /\ stages' = <<>> /\ outcome' = None)]_vars
    /\ [][(stages' # stages /\ stages' # <<>>)
              => (Len(stages') = Len(stages) + 1
                  /\ SubSeq(stages', 1, Len(stages)) = stages)]_vars

C9_Witness ==
    /\ pc = "done"
    /\ stages = StageOrder
    /\ outcome.some /\ outcome.v.ok

\* a diagnostic record shows the key in one of its fields
RecordMentions(record, key) ==
    \/ "request_headers" \in DOMAIN record
          /\ \E i \in 1..Len(record.request_headers) :
                Mentions(record.request_headers[i].value, key)
    \/ "request_body" \in DOMAIN record /\ Mentions(record.request_body, key)
    \/ "response_headers" \in DOMAIN record
          /\ \E i \in 1..Len(record.response_headers) :
                Mentions(record.response_headers[i].value, key)

\* C10: no diagnostic record and no error message of a call contains the API
\* key, and the records of a call that has dispatched its request are the
\* ones the same call produces on a client with any other key the transport
\* accepts as well.
C10_NoKeyInDiagnostics ==
    /\ \A i \in 1..Len(log) : ~RecordMentions(log[i], workos.key)
    /\ (outcome.some /\ ~outcome.v.ok /\ outcome.v.e.variant = "RequestError")
           => ~Mentions(outcome.v.e.message, workos.key)
    /\ (pc = "in_flight" /\ op.v.via = "send" /\ tracing) =>
           \A other \in ApiKeys :
               valid_header_value(other) = valid_header_value(workos.key) =>
                   log = send_begin(RequestFor(op.v, [workos EXCEPT !.key = other],
                                               request.v.url)).logs

\* what the call of `o` on `client` returns when the transport answers
\* `executed`: the functions of the pipeline applied one after the other,
\* none of which is given the tracing feature
ResultOfCall(o, client, executed) ==
    LET url == join(client.base_url, o.path)
    IN  IF ~url.ok THEN Err(UrlParseError(url.e))
        ELSE
        LET builder == RequestFor(o, client, url.v)
            begun == IF o.via = "send" THEN send_begin(builder).result
                     ELSE direct_begin(builder)
        IN  IF ~begun.ok THEN Err(begun.e)
            ELSE
            LET sent == IF o.via = "send"
                        THEN send_complete(builder, executed.v, 0).result
                        ELSE direct_complete(executed.v)
            IN  IF ~sent.ok THEN Err(sent.e)
                ELSE
                LET classified == Handler(o, sent.v).result
                IN  IF ~classified.ok THEN Err(classified.e)
                    ELSE IF ~o.decode THEN Ok([type |-> "unit"])
                    ELSE LET decoded == json_as(classified.v, "value")
                         IN  IF decoded.ok THEN Ok(decoded.v)
                             ELSE Err(RequestErrorFrom(decoded.e))

\* C11: what send returns and what the call returns are determined by the
\* operation, the client and the transport's answer alone, so they are the
\* same in a build with the tracing feature and in one without it; only the
\* records differ: without the feature the sink receives none, with it every
\* request send has dispatched has left a record.
C11_SameResultWithAndWithoutTracing ==
    /\ ~tracing => log = <<>>
    /\ (tracing /\ op.some /\ op.v.via = "send" /\ execCount = 1) => log # <<>>
    /\ (pc = "classify" /\ op.v.via = "send") =>
           \E duration \in Durations :
               response = Some(send_complete(request.v, transport.v, duration).result.v)
    /\ pc = "done" => outcome = Some(ResultOfCall(op.v, workos, transport))

C11_Witness ==
    /\ ~tracing
    /\ pc = "done"
    /\ op.v = create_user
    /\ Answered(500)
    /\ transport.v.v.body.text = Tok("{message:x}", 15)
    /\ outcome.v.e.variant = "RequestError"
    /\ log = <<>>

\* the transport failed to execute the request of a call made through send,
\* and send has returned
TransportFailed ==
    /\ SendReturned
    /\ transport.some /\ ~transport.v.ok

\* C12 as claimed: when the transport fails to execute the request, send
\* returns a RequestError that has the cause as its source and whose message
\* contains the request method, the URL and the cause.
C12_MessageHasMethodUrlAndCause ==
    TransportFailed =>
        /\ pc = "done"
        /\ outcome.some /\ ~outcome.v.ok
        /\ outcome.v.e.variant = "RequestError"
        /\ outcome.v.e.source = Some(transport.v.e)
        /\ Contains(outcome.v.e.message, Lit(request.v.method))
        /\ Contains(outcome.v.e.message, UrlText(request.v.url))
        /\ Contains(outcome.v.e.message, transport.v.e.display)

\* C12 amended: when the transport fails to execute the request, send returns
\* a RequestError that has the cause as its source and whose message is
\* "request to <url> failed: <cause>" when the cause carries a URL and
\* "request failed: <cause>" when it carries none; the request method is not
\* in the message.
C12_MessageHasUrlAndCause ==
    TransportFailed =>
        LET cause == transport.v.e
        IN  /\ pc = "done"
            /\ outcome.some /\ ~outcome.v.ok
            /\ outcome.v.e.variant = "RequestError"
            /\ outcome.v.e.source = Some(cause)
            /\ outcome.v.e.message
                   = IF cause.url.some
                     THEN Lit("request to ") \o UrlText(cause.url.v)
                          \o Lit(" failed: ") \o cause.display
                     ELSE Lit("request failed: ") \o cause.display
            /\ ~Contains(outcome.v.e.message, Lit(request.v.method))

C12_Witness ==
    /\ TransportFailed
    /\ op.v = list_users
    /\ transport.v.e.kind = "timeout"
    /\ outcome.v.e.source = Some(TimeoutError(request.v.url))

\* the body of the response decodes as the error type of the authenticate
\* endpoints
DecodableAuthenticateError(resp) ==
    /\ resp.body.readable
    /\ resp.body.json \in {"invalid_client", "unauthorized_client", "sso_required",
                           "code_error"}

\* what C14 says of every status but the last case
AuthenticateCases(resp, r) ==
    /\ (resp.status >= 200 /\ resp.status <= 299) => r = Ok(resp)
    /\ (resp.status = 400 /\ DecodableAuthenticateError(resp)) =>
           IF resp.body.json \in {"invalid_client", "unauthorized_client"}
           THEN r = Err(Unauthorized)
           ELSE r = Err(Operation([type |-> "AuthenticateError", json |-> resp.body.json]))
    /\ (resp.status = 403 /\ DecodableAuthenticateError(resp)) =>
           r = Err(Operation([type |-> "AuthenticateError", json |-> resp.body.json]))

\* C14 as claimed: handle_authenticate_error returns Ok for 2xx, Unauthorized
\* for a 400 whose decoded error is invalid_client or unauthorized_client,
\* Operation(decoded error) for any other decodable 400 and any decodable
\* 403, and RequestError for every other status outside 2xx.
C14_EveryOtherStatusIsRequestError ==
    response.some =>
        LET r == handle_authenticate_error(response.v).result
        IN  /\ AuthenticateCases(response.v, r)
            /\ (response.v.status \notin {400, 403}
                    /\ ~(response.v.status >= 200 /\ response.v.status <= 299))
                   => (~r.ok /\ r.e.variant = "RequestError")

\* C14 amended: as claimed for 2xx, 400 and 403 with a decodable body; a 400
\* or 403 whose body cannot be read or decoded and every other 4xx or 5xx
\* status give RequestError; every status below 400 (304 for one) gives Ok
\* like a 2xx.  An authenticate call returns what the classifier returned
\* when that is an error.
C14_AuthenticateErrorCases ==
    response.some =>
        LET r == handle_authenticate_error(response.v).result
        IN  /\ AuthenticateCases(response.v, r)
            /\ (response.v.status \in {400, 403} /\ ~DecodableAuthenticateError(response.v))
                   => (~r.ok /\ r.e.variant = "RequestError")
            /\ (response.v.status \notin {400, 403} /\ response.v.status >= 400)
                   => (~r.ok /\ r.e.variant = "RequestError")
            /\ response.v.status < 400 => r = Ok(response.v)
            /\ (pc = "done" /\ op.v.handler = "authenticate" /\ ~r.ok) => outcome = Some(r)

C14_Witness ==
    /\ pc = "done"
    /\ op.v = authenticate_with_password
    /\ Answered(400)
    /\ response.v.body.json = "unauthorized_client"
    /\ outcome = Some(Err(Unauthorized))

\* the statuses for which the endpoint declares a structured error, and the
\* type it decodes their body into
DeclaredStatuses(o) ==
    CASE o = reset_password -> {400, 404}
      [] o = create_password_reset -> {404}
      [] o = enroll_auth_factor -> {400}
      [] OTHER -> {}

DeclaredError(o) ==
    CASE o = reset_password -> "ResetPasswordError"
      [] o = create_password_reset -> "CreatePasswordResetError"
      [] o = enroll_auth_factor -> "EnrollAuthFactorError"
      [] OTHER -> "none"

\* C15: a call of reset_password, create_password_reset or enroll_auth_factor
\* answered with a 4xx or 5xx status other than 401 and 429 returns
\* Operation(decoded error) when the status is one the endpoint declares and
\* the body decodes, and for every status it does not declare a RequestError
\* whose message shows the response body.
C15_StructuredOrBodyDerivedError ==
    (/\ pc = "done"
     /\ op.v \in {reset_password, create_password_reset, enroll_auth_factor}
     /\ transport.some /\ transport.v.ok
     /\ transport.v.v.status >= 400
     /\ transport.v.v.status \notin {401, 429}) =>
        LET resp == transport.v.v
        IN  /\ outcome.some /\ ~outcome.v.ok
            /\ IF resp.status \in DeclaredStatuses(op.v)
               THEN (resp.body.readable /\ Decodes(resp.body.json, DeclaredError(op.v)))
                        => outcome.v.e = Operation([type |-> DeclaredError(op.v),
                                                    json |-> resp.body.json])
               ELSE /\ outcome.v.e.variant = "RequestError"
                    /\ (resp.body.readable /\ resp.body.text # <<>>)
                           => Contains(outcome.v.e.message,
                                       truncate_for_log(resp.body.text, MAX_BODY_LOG_BYTES))

\* the response of the call without a context, and the same response with
\* the context send attaches for the request of the call
Bare == [response.v EXCEPT !.context = None]

Attached ==
    store_response_context(
        Bare,
        ResponseLogContext(request.v.method, request.v.url,
                           sanitize_headers(response.v.headers), 0))

\* the classifier's outcomes `bare` without a context and `attached` with
\* one agree: both Ok with the response they were given, or both the same
\* error variant; and what `bare` reports is the unknown context
SameWithoutContext(bare, attached) ==
    /\ bare.result.ok = attached.result.ok
    /\ bare.result.ok => (bare.result.v = Bare /\ attached.result.v = Attached)
    /\ ~bare.result.ok =>
           /\ bare.result.e.variant \in {"Unauthorized", "RequestError"}
           /\ bare.result.e.variant = attached.result.e.variant
           /\ bare.result.e.variant = "RequestError" =>
                  SubSeq(bare.result.e.message, 1, 4)
                      = Lit("UNKNOWN") \o Lit(" ") \o UrlText(Bare.url)
    /\ Len(bare.logs) = Len(attached.logs)
    /\ \A i \in 1..Len(bare.logs) :
           /\ bare.logs[i].method = "UNKNOWN"
           /\ bare.logs[i].url = Bare.url
           /\ bare.logs[i].elapsed = 0
           /\ bare.logs[i].response_headers = sanitize_headers(Bare.headers)

\* C17: for a response without a context each of the three classifiers
\* returns a result (it does not panic), the same Ok or the same error
\* variant as for the response with a context; the records it emits and the
\* message of its RequestError give the method as "UNKNOWN", the URL as the
\* response's own URL and the duration as zero.  A call that does not go
\* through send returns what the classifier makes of its context-less
\* response.
C17_ClassifiersWithoutContext ==
    response.some =>
        /\ SameWithoutContext(handle_unauthorized_error(Bare),
                              handle_unauthorized_error(Attached))
        /\ SameWithoutContext(handle_generic_error(Bare), handle_generic_error(Attached))
        /\ SameWithoutContext(handle_unauthorized_or_generic_error(Bare),
                              handle_unauthorized_or_generic_error(Attached))
        /\ (op.v.via = "direct" /\ op.v.handler = "unauthorized_or_generic") =>
               /\ response.v = Bare
               /\ (pc = "done" /\ ~handle_unauthorized_or_generic_error(Bare).result.ok)
                      => outcome = Some(handle_unauthorized_or_generic_error(Bare).result)

C17_Witness ==
    /\ pc = "done"
    /\ op.v = get_directory
    /\ Answered(500)
    /\ response.v.context = None
    /\ tracing
    /\ Len(log) = 1
    /\ log[1].method = "UNKNOWN" /\ log[1].elapsed = 0 /\ log[1].url = response.v.url
    /\ outcome.v.e.variant = "RequestError"
    /\ outcome.v.e.message[1] = Lit("UNKNOWN")[1]

\* send returned Ok(response) in this call
SendReturnedOk == SendReturned /\ response.some

\* C18: a response send has returned as Ok is the response the transport
\* delivered with a context attached; the context's method and URL are those
\* of the request that was sent, its headers are the response's headers
\* sanitized (a value that is not text shown as a placeholder), its duration
\* a measured one.
C18_OkResponseCarriesContext ==
    SendReturnedOk =>
        /\ transport.v.ok
        /\ [response.v EXCEPT !.context = None] = transport.v.v
        /\ response.v.context.some
        /\ response.v.context.v.method = request.v.method
        /\ response.v.context.v.url = request.v.url
        /\ response.v.context.v.duration \in Durations
        /\ LET raw == transport.v.v.headers
               kept == response.v.context.v.response_headers
           IN  /\ Len(kept) = Len(raw)
               /\ kept = sanitize_headers(raw)
               /\ \A i \in 1..Len(raw) :
                      /\ kept[i].name = raw[i].name
                      /\ kept[i].value = IF raw[i].value.ascii THEN raw[i].value.text
                                         ELSE Tok("<non-utf8-value>", 16)
        /\ response_context(response.v) = response.v.context

C18_Witness ==
    /\ SendReturnedOk
    /\ pc = "classify"
    /\ op.v = update_user
    /\ Answered(404)
    /\ transport.v.v.headers = <<Header("retry-after", FALSE, Lit("<bytes>"))>>
    /\ response.v.context.v.method = update_user.method
    /\ response.v.context.v.response_headers
           = <<[name |-> "retry-after", value |-> NonUtf8Value]>>

\* the call went through send and ended before any classifier ran: its
\* outcome is what send (or the build before it) returned
EndedInSend ==
    /\ pc = "done"
    /\ op.v.via = "send"
    /\ \A i \in 1..Len(stages) : stages[i] # "classify"

\* C19: for a response of any status but 429 (401 and every other status
\* outside 2xx included) send returns Ok(response) and leaves the status to
\* the classifier; an error send returns is never Unauthorized, and a
\* RequestError it returns has a failure of the transport or of the build as
\* its source, never a status.
C19_SendLeavesStatusToClassifier ==
    /\ (SendReturned /\ transport.some /\ transport.v.ok /\ transport.v.v.status # 429) =>
           /\ response.some
           /\ response.v.status = transport.v.v.status
           /\ response.v.body = transport.v.v.body
           /\ stages[3] = "rate_limit_check"
           /\ Len(stages) >= 4 => stages[4] = "classify"
    /\ EndedInSend =>
           /\ outcome.some /\ ~outcome.v.ok
           /\ outcome.v.e.variant \in {"UrlParseError", "RateLimited", "RequestError"}
           /\ outcome.v.e.variant = "RateLimited" => Answered(429)
           /\ outcome.v.e.variant = "RequestError" =>
                  /\ outcome.v.e.source.some
                  /\ outcome.v.e.source.v.kind \in {"builder", "connect", "timeout"}
                  /\ ~(transport.some /\ transport.v.ok)

C19_Witness ==
    /\ pc = "classify"
    /\ op.v = list_users
    /\ Answered(401)
    /\ response.some /\ response.v.status = 401
    /\ stages = <<"build", "send", "rate_limit_check">>

\* C20: with the tracing feature, a send call that returns a RequestError
\* (the transport failed, or the request could not be built) has emitted
\* exactly one "request failed" record, its last record, which carries the
\* error chain and the hint of the error returned.
C20_OneFailureDiagnostic ==
    (tracing /\ EndedInSend /\ outcome.v.e.variant = "RequestError") =>
        LET cause == outcome.v.e.source.v
        IN  /\ Cardinality({i \in 1..Len(log) : log[i].event = "request failed"}) = 1
            /\ log[Len(log)].event = "request failed"
            /\ log[Len(log)].error_chain = collect_error_chain(cause)
            /\ log[Len(log)].error_hint
                   = derive_error_hint(cause, collect_error_chain(cause))

\* the events of the records the sink has received in this call, in order
Events == [i \in 1..Len(log) |-> log[i].event]

\* the record send owes the sink for the transport's answer
ExpectedEvent ==
    IF ~transport.v.ok THEN "request failed"
    ELSE IF transport.v.v.status \in 200..299 THEN "received response"
    ELSE "received non-success response"

SendOutcomeEvents ==
    {"request failed", "received response", "received non-success response"}

\* C21: with the tracing feature, in a send call whose request builds, the
\* "sending request" record is the only record when the transport executes
\* the request, and once send has returned the sink holds after it exactly
\* one of "request failed", "received response" (2xx) and "received
\* non-success response" (any other status, 429 included): the one that
\* matches the transport's answer.
C21_RequestRecordThenOneOutcomeRecord ==
    (tracing /\ op.some /\ op.v.via = "send") =>
        /\ pc = "in_flight" => Events = <<"sending request">> /\ execCount = 0
        /\ pc = "responded" => Events = <<"sending request">> /\ execCount = 1
        /\ (transport.some /\ pc \notin {"in_flight", "responded"}) =>
              /\ Len(log) >= 2
              /\ SubSeq(Events, 1, 2) = <<"sending request", ExpectedEvent>>
              /\ Cardinality({i \in 1..Len(log) : log[i].event \in SendOutcomeEvents}) = 1
              /\ Cardinality({i \in 1..Len(log) : log[i].event = "sending request"}) = 1

C21_Witness ==
    /\ tracing
    /\ Answered(429)
    /\ op.v.via = "send"
    /\ pc = "done"
    /\ Events = <<"sending request", "received non-success response">>

\* the response in hand has a status outside 2xx and a body that cannot be read
UnreadableFailure ==
    /\ response.some
    /\ ~(response.v.status \in 200..299)
    /\ ~response.v.body.readable

\* the endpoint's classifier chain hands this response to handle_generic_error
EndsInGenericError ==
    \/ op.v.handler = "generic"
    \/ op.v.handler = "unauthorized_or_generic" /\ response.v.status # UNAUTHORIZED

\* C22: for a response outside 2xx whose body cannot be read,
\* handle_generic_error reads the body once and returns Err(RequestError):
\* the message contains the status and the text of the read error, and the
\* source is the read error.  A call whose classifier chain ends in
\* handle_generic_error returns that error and nothing else.
C22_BodyReadFailureIsOneRequestError ==
    UnreadableFailure =>
        LET classified == handle_generic_error(response.v)
            err == BodyReadError(response.v)
        IN  /\ ~classified.result.ok
            /\ classified.result.e.variant = "RequestError"
            /\ Contains(classified.result.e.message, StatusText(response.v.status))
            /\ Contains(classified.result.e.message, err.display)
            /\ classified.result.e.source = Some(err)
            /\ classified.reads = 1
            /\ (pc = "done" /\ EndsInGenericError) =>
                  /\ outcome = Some(classified.result)
                  /\ bodyReads = 1

C22_Witness ==
    /\ UnreadableFailure
    /\ response.v.status = 500
    /\ op.v.name = "user_management::get_jwks"
    /\ pc = "done"
    /\ outcome.v.e.variant = "RequestError"
    /\ outcome.v.e.source.some
    /\ outcome.v.e.source.v.kind = "body"

-----------------------------------------------------------------------------
(* Concurrent calls on one shared client.  Each task makes one call and    *)
(* holds its own request, response and result, so under SpecConcurrent the *)
(* per-call variables are functions of the task, log among them: log[t]   *)
(* is the records the sink received from task t.  The client (workos) is   *)
(* the state all tasks share.  A task takes the same steps as a call of    *)
(* Spec, interleaved with the other tasks at every step.                   *)

MaxTasks == 2

Tasks == 1..MaxTasks

ConcurrentOperations == {create_user, get_directory, delete_user}

ConcurrentClients ==
    {[base_url |-> "https://api.workos.com", key |-> "sk_example_123456789"],
     [base_url |-> "https://api.workos.com", key |-> "sk_line\nbreak"],
     [base_url |-> "mailto:ops@example.com", key |-> "sk_another_api_key"]}

ConcurrentOutcomes(url) ==
    {Err(TimeoutError(url))}
    \cup {Ok([status |-> st, headers |-> <<>>, body |-> b, url |-> url, context |-> None]) :
            st \in {200, 500},
            b \in {[readable |-> TRUE, text |-> Tok("{id:1}", 8), json |-> "value"]}}

InitConcurrent ==
    /\ workosBuilder = None
    /\ workos \in ConcurrentClients
    /\ tracing \in BOOLEAN
    /\ op = [t \in Tasks |-> None]
    /\ pc = [t \in Tasks |-> "idle"]
    /\ request = [t \in Tasks |-> None]
    /\ execCount = [t \in Tasks |-> 0]
    /\ transport = [t \in Tasks |-> None]
    /\ response = [t \in Tasks |-> None]
    /\ outcome = [t \in Tasks |-> None]
    /\ stages = [t \in Tasks |-> <<>>]
    /\ log = [t \in Tasks |-> <<>>]
    /\ bodyReads = [t \in Tasks |-> 0]

TaskEmit(t, records) == [log EXCEPT ![t] = IF tracing THEN @ \o records ELSE @]

TaskCall(t, o) ==
    /\ pc[t] = "idle"
    /\ op' = [op EXCEPT ![t] = Some(o)]
    /\ stages' = [stages EXCEPT ![t] = <<"build">>]
    /\ LET url == join(workos.base_url, o.path)
       IN  IF url.ok
           THEN /\ request' = [request EXCEPT ![t] = Some(RequestFor(o, workos, url.v))]
                /\ pc' = [pc EXCEPT ![t] = IF o.via = "send" THEN "send" ELSE "direct"]
                /\ outcome' = outcome
           ELSE /\ request' = request
                /\ pc' = [pc EXCEPT ![t] = "done"]
                /\ outcome' = [outcome EXCEPT ![t] = Some(Err(UrlParseError(url.e)))]
    /\ UNCHANGED <<workosBuilder, workos, tracing, execCount, transport, response, log, bodyReads>>

TaskSendBegin(t) ==
    /\ pc[t] = "send"
    /\ stages' = [stages EXCEPT ![t] = Append(@, "send")]
    /\ LET begun == send_begin(request[t].v)
       IN  /\ log' = TaskEmit(t, begun.logs)
           /\ IF begun.result.ok
              THEN pc' = [pc EXCEPT ![t] = "in_flight"] /\ outcome' = outcome
              ELSE /\ pc' = [pc EXCEPT ![t] = "done"]
                   /\ outcome' = [outcome EXCEPT ![t] = Some(Err(begun.result.e))]
    /\ UNCHANGED <<workosBuilder, workos, tracing, op, request, execCount, transport, response, bodyReads>>

TaskDirectSend(t) ==
    /\ pc[t] = "direct"
    /\ stages' = [stages EXCEPT ![t] = Append(@, "send")]
    /\ LET begun == direct_begin(request[t].v)
       IN  IF begun.ok
           THEN pc' = [pc EXCEPT ![t] = "in_flight"] /\ outcome' = outcome
           ELSE /\ pc' = [pc EXCEPT ![t] = "done"]
                /\ outcome' = [outcome EXCEPT ![t] = Some(Err(begun.e))]
    /\ UNCHANGED <<workosBuilder, workos, tracing, op, request, execCount, transport, response, log,
                   bodyReads>>

TaskTransport(t) ==
    /\ pc[t] = "in_flight"
    /\ \E executed \in ConcurrentOutcomes(request[t].v.url) :
           transport' = [transport EXCEPT ![t] = Some(executed)]
    /\ execCount' = [execCount EXCEPT ![t] = @ + 1]
    /\ pc' = [pc EXCEPT ![t] = "responded"]
    /\ UNCHANGED <<workosBuilder, workos, tracing, op, request, response, outcome, stages, log, bodyReads>>

\* a variant: the request whose method and URL go into the context is read
\* from a slot of the client that the task that dispatched first has filled
TaskSendFinishSharedRequest(t) ==
    /\ pc[t] = "responded"
    /\ op[t].v.via = "send"
    /\ \E duration \in Durations :
        LET first == CHOOSE u \in Tasks :
                        /\ request[u].some
                        /\ \A v \in Tasks : request[v].some => u <= v
            done == send_complete(request[first].v, transport[t].v, duration)
        IN  /\ log' = TaskEmit(t, done.logs)
            /\ stages' = [stages EXCEPT ![t] =
                             IF done.checked THEN Append(@, "rate_limit_check") ELSE @]
            /\ IF done.result.ok
               THEN /\ response' = [response EXCEPT ![t] = Some(done.result.v)]
                    /\ pc' = [pc EXCEPT ![t] = "classify"]
                    /\ outcome' = outcome
               ELSE /\ response' = response
                    /\ pc' = [pc EXCEPT ![t] = "done"]
                    /\ outcome' = [outcome EXCEPT ![t] = Some(Err(done.result.e))]
    /\ UNCHANGED <<workosBuilder, workos, tracing, op, request, execCount, transport, bodyReads>>

TaskSendFinish(t) ==
    /\ pc[t] = "responded"
    /\ op[t].v.via = "send"
    /\ \E duration \in Durations :
        LET done == send_complete(request[t].v, transport[t].v, duration)
        IN  /\ log' = TaskEmit(t, done.logs)
            /\ stages' = [stages EXCEPT ![t] =
                             IF done.checked THEN Append(@, "rate_limit_check") ELSE @]
            /\ IF done.result.ok
               THEN /\ response' = [response EXCEPT ![t] = Some(done.result.v)]
                    /\ pc' = [pc EXCEPT ![t] = "classify"]
                    /\ outcome' = outcome
               ELSE /\ response' = response
                    /\ pc' = [pc EXCEPT ![t] = "done"]
                    /\ outcome' = [outcome EXCEPT ![t] = Some(Err(done.result.e))]
    /\ UNCHANGED <<workosBuilder, workos, tracing, op, request, execCount, transport, bodyReads>>

TaskDirectFinish(t) ==
    /\ pc[t] = "responded"
    /\ op[t].v.via = "direct"
    /\ LET done == direct_complete(transport[t].v)
       IN  IF done.ok
           THEN /\ response' = [response EXCEPT ![t] = Some(done.v)]
                /\ pc' = [pc EXCEPT ![t] = "classify"]
                /\ outcome' = outcome
           ELSE /\ response' = response
                /\ pc' = [pc EXCEPT ![t] = "done"]
                /\ outcome' = [outcome EXCEPT ![t] = Some(Err(done.e))]
    /\ UNCHANGED <<workosBuilder, workos, tracing, op, request, execCount, transport, stages, log,
                   bodyReads>>

TaskClassify(t) ==
    /\ pc[t] = "classify"
    /\ stages' = [stages EXCEPT ![t] = Append(@, "classify")]
    /\ LET classified == Handler(op[t].v, response[t].v)
       IN  /\ log' = TaskEmit(t, classified.logs)
           /\ bodyReads' = [bodyReads EXCEPT ![t] = @ + classified.reads]
           /\ IF classified.result.ok
              THEN /\ response' = [response EXCEPT ![t] = Some(classified.result.v)]
                   /\ IF op[t].v.decode
                      THEN pc' = [pc EXCEPT ![t] = "deserialize"] /\ outcome' = outcome
                      ELSE /\ pc' = [pc EXCEPT ![t] = "done"]
                           /\ outcome' = [outcome EXCEPT ![t] = Some(Ok([type |-> "unit"]))]
              ELSE /\ response' = response
                   /\ pc' = [pc EXCEPT ![t] = "done"]
                   /\ outcome' = [outcome EXCEPT ![t] = Some(Err(classified.result.e))]
    /\ UNCHANGED <<workosBuilder, workos, tracing, op, request, execCount, transport>>

TaskDeserialize(t) ==
    /\ pc[t] = "deserialize"
    /\ stages' = [stages EXCEPT ![t] = Append(@, "deserialize")]
    /\ bodyReads' = [bodyReads EXCEPT ![t] = @ + 1]
    /\ LET decoded == json_as(response[t].v, "value")
       IN  outcome' = [outcome EXCEPT ![t] =
                          IF decoded.ok THEN Some(Ok(decoded.v))
                          ELSE Some(Err(RequestErrorFrom(decoded.e)))]
    /\ pc' = [pc EXCEPT ![t] = "done"]
    /\ UNCHANGED <<workosBuilder, workos, tracing, op, request, execCount, transport, response, log>>

NextConcurrent ==
    \E t \in Tasks :
        \/ \E o \in ConcurrentOperations : TaskCall(t, o)
        \/ TaskSendBegin(t)
        \/ TaskDirectSend(t)
        \/ TaskTransport(t)
        \/ TaskSendFinish(t)
        \/ TaskDirectFinish(t)
        \/ TaskClassify(t)
        \/ TaskDeserialize(t)

SpecConcurrent == InitConcurrent /\ [][NextConcurrent]_vars

\* the transport answered the call of task t with status 500
Answered500(t) == transport[t].some /\ transport[t].v.ok /\ transport[t].v.v.status = 500

\* C13: in every interleaving of the calls of the tasks on the shared client,
\* the result of each call is the one the same call returns when it runs
\* alone (the operation, the client and the transport's answer to that call
\* decide it), and no step of any call changes the client's base URL or key.
C13_CallsAreIndependent ==
    /\ [](\A t \in Tasks :
            pc[t] = "done" => outcome[t] = Some(ResultOfCall(op[t].v, workos, transport[t])))
    /\ [][workos' = workos]_vars

\* two calls in flight at the same time: one has returned its error while
\* the other, dispatched meanwhile, still waits for the transport or for send
C13_Witness ==
    \E t \in Tasks :
        /\ pc[t] = "done"
        /\ Answered500(t)
        /\ op[t].v = create_user
        /\ outcome[t] = Some(ResultOfCall(op[t].v, workos, transport[t]))
        /\ \E u \in Tasks :
            /\ u # t
            /\ op[u].some /\ op[u].v = delete_user
            /\ pc[u] \in {"in_flight", "responded"}

-----------------------------------------------------------------------------
(* workos.rs: WorkOsBuilder.  Under SpecBuilder a caller creates a         *)
(* builder, calls its setters and builds the client; stages lists the      *)
(* calls made so far with their arguments, workos is None until the        *)
(* client is built.                                                         *)

MaxSetterCalls == 3

UrlInputs ==
    {"https://auth.your-app.com", "HTTPS://API.WORKOS.COM", "mailto:ops@example.com",
     "/relative/path", "api.workos.com", "https://", ""}

\* Url::parse: an absolute URL is stored with its scheme and host in lower
\* case; a string without a scheme is relative and has no base to resolve
\* against; a special scheme needs a host
Url_parse(input) ==
    CASE input = "https://api.workos.com" -> Ok("https://api.workos.com")
      [] input = "HTTPS://API.WORKOS.COM" -> Ok("https://api.workos.com")
      [] input = "https://auth.your-app.com" -> Ok("https://auth.your-app.com")
      [] input = "mailto:ops@example.com" -> Ok("mailto:ops@example.com")
      [] input = "https://" -> Err("EmptyHost")
      [] OTHER -> Err("RelativeUrlWithoutBase")

InitBuilder ==
    /\ workosBuilder = None
    /\ workos = None
    /\ tracing = FALSE
    /\ op = None
    /\ pc = "start"
    /\ request = None
    /\ execCount = 0
    /\ transport = None
    /\ response = None
    /\ outcome = None
    /\ stages = <<>>
    /\ log = <<>>
    /\ bodyReads = 0

\* WorkOsBuilder::new
BuilderNew(k) ==
    /\ pc = "start"
    /\ workosBuilder' = Some([base_url |-> Url_parse("https://api.workos.com").v, key |-> k])
    /\ stages' = <<[call |-> "new", arg |-> k]>>
    /\ pc' = "building"
    /\ UNCHANGED <<workos, tracing, op, request, execCount, transport, response, outcome,
                   log, bodyReads>>

\* a variant: a string that does not parse leaves the builder as it was
BuilderBaseUrlLenient(input) ==
    /\ pc = "building"
    /\ Len(stages) <= MaxSetterCalls
    /\ stages' = Append(stages, [call |-> "base_url", arg |-> input])
    /\ LET parsed == Url_parse(input)
       IN  /\ workosBuilder' = IF parsed.ok
                               THEN Some([workosBuilder.v EXCEPT !.base_url = parsed.v])
                               ELSE workosBuilder
           /\ pc' = "building"
           /\ outcome' = outcome
    /\ UNCHANGED <<workos, tracing, op, request, execCount, transport, response, log,
                   bodyReads>>

\* WorkOsBuilder::base_url: the builder moves into the call and comes back
\* only in Ok
BuilderBaseUrl(input) ==
    /\ pc = "building"
    /\ Len(stages) <= MaxSetterCalls
    /\ stages' = Append(stages, [call |-> "base_url", arg |-> input])
    /\ LET parsed == Url_parse(input)
       IN  IF parsed.ok
           THEN /\ workosBuilder' = Some([workosBuilder.v EXCEPT !.base_url = parsed.v])
                /\ pc' = "building"
                /\ outcome' = outcome
           ELSE /\ workosBuilder' = None
                /\ pc' = "failed"
                /\ outcome' = Some(Err(parsed.e))
    /\ UNCHANGED <<workos, tracing, op, request, execCount, transport, response, log,
                   bodyReads>>

\* WorkOsBuilder::key
BuilderKey(k) ==
    /\ pc = "building"
    /\ Len(stages) <= MaxSetterCalls
    /\ stages' = Append(stages, [call |-> "key", arg |-> k])
    /\ workosBuilder' = Some([workosBuilder.v EXCEPT !.key = k])
    /\ UNCHANGED <<workos, tracing, op, pc, request, execCount, transport, response,
                   outcome, log, bodyReads>>

\* WorkOsBuilder::build
BuilderBuild ==
    /\ pc = "building"
    /\ workos' = [base_url |-> workosBuilder.v.base_url, key |-> workosBuilder.v.key]
    /\ workosBuilder' = None
    /\ stages' = Append(stages, [call |-> "build", arg |-> ""])
    /\ pc' = "built"
    /\ UNCHANGED <<tracing, op, request, execCount, transport, response, outcome, log,
                   bodyReads>>

NextBuilder ==
    \/ \E k \in ApiKeys : BuilderNew(k)
    \/ \E input \in UrlInputs : BuilderBaseUrl(input)
    \/ \E k \in ApiKeys : BuilderKey(k)
    \/ BuilderBuild

SpecBuilder == InitBuilder /\ [][NextBuilder]_vars

\* the argument of the last of the calls named in `calls`
LastArg(calls) ==
    stages[CHOOSE i \in 1..Len(stages) :
               /\ stages[i].call \in calls
               /\ \A j \in (i + 1)..Len(stages) : stages[j].call \notin calls].arg

\* the strings that are absolute URLs: a scheme, and a host where the scheme
\* needs one
AbsoluteUrls ==
    {"https://auth.your-app.com", "HTTPS://API.WORKOS.COM", "mailto:ops@example.com"}

\* the URL value an absolute URL string denotes
UrlOf(input) ==
    IF input = "HTTPS://API.WORKOS.COM" THEN "https://api.workos.com" ELSE input

\* C16: the client a builder builds has the base URL https://api.workos.com
\* when base_url was never called and otherwise the URL of the last base_url
\* call, and the key of the last key call (of new when there was none); a
\* base_url call with a string that is not an absolute URL returns an error,
\* consumes the builder, and no client is built after it.
C16_BuilderSetsUrlAndKey ==
    /\ pc = "built" =>
           /\ workos.key = LastArg({"new", "key"})
           /\ workos.base_url
                  = IF \E i \in 1..Len(stages) : stages[i].call = "base_url"
                    THEN UrlOf(LastArg({"base_url"}))
                    ELSE "https://api.workos.com"
    /\ (\E i \in 1..Len(stages) :
            stages[i].call = "base_url" /\ stages[i].arg \notin AbsoluteUrls) =>
           /\ pc = "failed"
           /\ stages[Len(stages)].call = "base_url"
           /\ outcome.some /\ ~outcome.v.ok
           /\ workosBuilder = None
           /\ workos = None

C16_Witness ==
    /\ pc = "built"
    /\ stages = <<[call |-> "new", arg |-> "sk_example_123456789"],
                  [call |-> "base_url", arg |-> "mailto:ops@example.com"],
                  [call |-> "key", arg |-> "sk_another_api_key"],
                  [call |-> "base_url", arg |-> "https://auth.your-app.com"],
                  [call |-> "build", arg |-> ""]>>
    /\ workos = [base_url |-> "https://auth.your-app.com", key |-> "sk_another_api_key"]

-----------------------------------------------------------------------------
(* The helpers of core/http.rs and the decoders of the authenticate errors  *)
(* applied to inputs of their own.  Under SpecHelpers one function is       *)
(* applied to one input: pc names the function, request holds the input     *)
(* and outcome what the function returned.                                   *)

MaxHeaders == 3

\* the headers a caller or a server can give, as [name, value] in the
\* spelling given
WireHeaders ==
    {Header("authorization", TRUE, Lit("Bearer ") \o KeyText("sk_example_123456789")),
     Header("Authorization", TRUE, Lit("Basic dXNlcjpwYXNz")),
     Header("AUTHORIZATION", FALSE, Lit("<bytes>")),
     Header("content-type", TRUE, Lit("application/json")),
     Header("x-request-id", TRUE, Lit("req_01")),
     Header("x-trace", FALSE, Lit("<bytes>"))}

\* the HeaderMap holding the appended headers: names are held in lower case
\* and iteration yields the names in order of first appearance, the values
\* of one name together
RECURSIVE HeaderMapFrom(_, _)
HeaderMapFrom(appended, i) ==
    IF i > Len(appended) THEN <<>>
    ELSE IF \E j \in 1..(i - 1) : appended[j].name = appended[i].name
         THEN HeaderMapFrom(appended, i + 1)
         ELSE SelectSeq(appended, LAMBDA h : h.name = appended[i].name)
              \o HeaderMapFrom(appended, i + 1)

HeaderMapOf(wire) ==
    HeaderMapFrom([i \in 1..Len(wire) |->
                      [name |-> to_ascii_lowercase(wire[i].name), value |-> wire[i].value]], 1)

InitHelpers ==
    /\ workosBuilder = None
    /\ workos = None
    /\ tracing = TRUE
    /\ op = None
    /\ pc = "idle"
    /\ request = None
    /\ execCount = 0
    /\ transport = None
    /\ response = None
    /\ outcome = None
    /\ stages = <<>>
    /\ log = <<>>
    /\ bodyReads = 0

\* sanitize_headers on the headers of a request or of a response
ApplySanitizeHeaders ==
    /\ pc = "idle"
    /\ \E n \in 0..MaxHeaders : \E wire \in [1..n -> WireHeaders] :
          /\ request' = Some([wire |-> wire, headers |-> HeaderMapOf(wire)])
          /\ outcome' = Some(sanitize_headers(HeaderMapOf(wire)))
    /\ pc' = "sanitize_headers"
    /\ UNCHANGED <<workosBuilder, workos, tracing, op, execCount, transport, response,
                   stages, log, bodyReads>>

\* sanitize_headers on a HeaderMap filled with the pairs it returned;
\* response keeps the pairs of the first pass
ApplySanitizeHeadersAgain ==
    /\ pc = "sanitize_headers"
    /\ response' = outcome
    /\ outcome' = Some(sanitize_headers(HeaderMapOf(
                       [i \in 1..Len(outcome.v) |->
                           Header(outcome.v[i].name, TRUE, outcome.v[i].value)])))
    /\ pc' = "sanitize_headers_again"
    /\ UNCHANGED <<workosBuilder, workos, tracing, op, request, execCount, transport,
                   stages, log, bodyReads>>

MaxRuns == 2

MaxRunLen == 2

MaxLimit == 8

\* characters of 1, 2, 3 and 4 bytes (char::len_utf8), as runs of 1..MaxRunLen
Characters ==
    {Run(c[1], c[2], n) : c \in {<<"a", 1>>, <<"e'", 2>>, <<"EUR", 3>>, <<":)", 4>>},
                          n \in 1..MaxRunLen}

\* truncate_for_log on a text and a limit
ApplyTruncateForLog ==
    /\ pc = "idle"
    /\ \E n \in 0..MaxRuns : \E text \in [1..n -> Characters] : \E limit \in 0..MaxLimit :
          /\ request' = Some([text |-> text, limit |-> limit])
          /\ outcome' = Some(truncate_for_log(text, limit))
    /\ pc' = "truncate_for_log"
    /\ UNCHANGED <<workosBuilder, workos, tracing, op, execCount, transport, response,
                   stages, log, bodyReads>>

\* the bodies a request can carry: none, a stream, or bytes (short JSON, of
\* exactly the limit, one byte over it with a 2-byte character across the
\* limit, and with bytes that are not UTF-8)
PreviewBodies ==
    {None, Some([bytes |-> None])}
    \cup {Some([bytes |-> Some(b)]) :
             b \in {Tok("{params}", 40),
                    <<Run("a", 1, MAX_BODY_LOG_BYTES)>>,
                    <<Run("a", 1, MAX_BODY_LOG_BYTES - 1), Run("e'", 2, 1)>>,
                    <<Run("<0xFF>", 1, 2)>>,
                    <<Run("a", 1, MAX_BODY_LOG_BYTES - 192), Run("<0xFF>", 1, 100)>>}}

\* WorkOs::send up to the await on the transport, on a request of any body:
\* outcome holds the preview and the request handed to the transport
ApplySendBegin ==
    /\ pc = "idle"
    /\ \E body \in PreviewBodies : \E method \in {"GET", "POST"} :
          LET builder == [method |-> method,
                          url |-> [base |-> "https://api.workos.com", path |-> "/events"],
                          headers |-> <<>>, body |-> body, error |-> FALSE]
              begun == send_begin(builder)
          IN  /\ request' = Some(builder)
              /\ outcome' = Some([request_body |-> request_body_preview(builder),
                                  executed |-> begun.result])
              /\ log' = Emit(begun.logs)
    /\ pc' = "send_begin"
    /\ UNCHANGED <<workosBuilder, workos, tracing, op, execCount, transport, response,
                   stages, bodyReads>>

MaxChain == 3

\* Display texts of the sources of a transport error
SourceMessages ==
    {Lit("client error (Connect)"),
     Lit("Operation Timed Out"),
     Lit("dns error: failed to lookup address information"),
     Lit("Connection refused (os error 111)"),
     Lit("SSL routines: unable to get local issuer certificate"),
     Lit("OSSL_STORE_get0_loader_int: unregistered scheme")}

\* workos.rs:69, collect_error_chain on the error of the transport
ApplyCollectErrorChain ==
    /\ pc = "idle"
    /\ \E kind \in {"connect", "timeout"} :
       \E display \in {Lit("error sending request"), Lit("failed to resolve host")} :
       \E n \in 0..MaxChain : \E chain \in [1..n -> SourceMessages] :
          LET err == ReqwestError(kind, None, display, chain)
          IN  /\ request' = Some(err)
              /\ outcome' = Some(collect_error_chain(err))
    /\ pc' = "collect_error_chain"
    /\ UNCHANGED <<workosBuilder, workos, tracing, op, execCount, transport, response,
                   stages, log, bodyReads>>

\* workos.rs:70, derive_error_hint on the error and the chain collected
\* from it; response keeps the chain
ApplyDeriveErrorHint ==
    /\ pc = "collect_error_chain"
    /\ response' = outcome
    /\ outcome' = Some(derive_error_hint(request.v, outcome.v))
    /\ pc' = "derive_error_hint"
    /\ UNCHANGED <<workosBuilder, workos, tracing, op, request, execCount, transport,
                   stages, log, bodyReads>>

\* serde's rename_all = "snake_case" on the variant names of the two enums
snake_case(name) ==
    CASE name = "EmailVerificationRequired" -> "email_verification_required"
      [] name = "InvalidCredentials" -> "invalid_credentials"
      [] name = "InvalidOneTimeCode" -> "invalid_one_time_code"
      [] name = "MfaEnrollment" -> "mfa_enrollment"
      [] name = "MfaChallenge" -> "mfa_challenge"
      [] name = "OneTimeCodeExpired" -> "one_time_code_expired"
      [] name = "OrganizationSelectionRequired" -> "organization_selection_required"
      [] name = "SsoRequired" -> "sso_required"
      [] name = "OrganizationAuthenticationMethodsRequired" ->
             "organization_authentication_methods_required"

\* the tagged variants of AuthenticateErrorWithCode and the fields each
\* one requires
AuthenticateErrorWithCode ==
    {[name |-> "EmailVerificationRequired",
      fields |-> {"message", "pending_authentication_token", "email",
                  "email_verification_id"}],
     [name |-> "InvalidCredentials", fields |-> {"message"}],
     [name |-> "InvalidOneTimeCode", fields |-> {"message"}],
     [name |-> "MfaEnrollment",
      fields |-> {"message", "pending_authentication_token", "user"}],
     [name |-> "MfaChallenge",
      fields |-> {"message", "pending_authentication_token", "authentication_factors",
                  "user"}],
     [name |-> "OneTimeCodeExpired", fields |-> {"message"}],
     [name |-> "OrganizationSelectionRequired",
      fields |-> {"message", "pending_authentication_token", "user", "organizations"}]}

\* the tagged variants of AuthenticateErrorWithError; the Option field
\* pending_authentication_token of SsoRequired is not required
AuthenticateErrorWithError ==
    {[name |-> "SsoRequired",
      fields |-> {"error_description", "email", "sso_connection_ids"}],
     [name |-> "OrganizationAuthenticationMethodsRequired",
      fields |-> {"error_description", "email", "sso_connection_ids",
                  "authenticate_methods"}]}

\* Deserialize for AuthenticateErrorWithCode on a JSON object
\* [code, error: Option<String>, fields: the other fields present]: the
\* variant the `code` tag names when its fields are there, else the untagged
\* Other {code, message}
deserialize_with_code(body) ==
    IF body.code.some /\ \E v \in AuthenticateErrorWithCode :
                            snake_case(v.name) = body.code.v /\ v.fields \subseteq body.fields
    THEN Ok([enum |-> "WithCode",
             variant |-> (CHOOSE v \in AuthenticateErrorWithCode :
                              snake_case(v.name) = body.code.v).name,
             code |-> body.code.v])
    ELSE IF body.code.some /\ "message" \in body.fields
    THEN Ok([enum |-> "WithCode", variant |-> "Other", code |-> body.code.v])
    ELSE Err("data did not match any variant")

\* Deserialize for AuthenticateErrorWithError, whose tag is `code` as well:
\* the variant the `code` tag names when its fields are there, else the
\* untagged Other {error, error_description}
deserialize_with_error(body) ==
    IF body.code.some /\ \E v \in AuthenticateErrorWithError :
                            snake_case(v.name) = body.code.v /\ v.fields \subseteq body.fields
    THEN Ok([enum |-> "WithError",
             variant |-> (CHOOSE v \in AuthenticateErrorWithError :
                              snake_case(v.name) = body.code.v).name,
             error |-> body.code.v])
    ELSE IF body.error.some /\ "error_description" \in body.fields
    THEN Ok([enum |-> "WithError", variant |-> "Other", error |-> body.error.v])
    ELSE Err("data did not match any variant")

\* Deserialize for the untagged AuthenticateError: WithCode, then WithError
deserialize_authenticate_error(body) ==
    IF deserialize_with_code(body).ok THEN deserialize_with_code(body)
    ELSE deserialize_with_error(body)

\* AuthenticateErrorWithCode::code
code(e) ==
    CASE e.variant = "EmailVerificationRequired" -> "email_verification_requried"
      [] e.variant = "InvalidCredentials" -> "invalid_credentials"
      [] e.variant = "InvalidOneTimeCode" -> "invalid_one_time_code"
      [] e.variant = "MfaEnrollment" -> "mfa_enrollment"
      [] e.variant = "MfaChallenge" -> "mfa_challenge"
      [] e.variant = "OneTimeCodeExpired" -> "one_time_code_expired"
      [] e.variant = "OrganizationSelectionRequired" -> "organization_selection_required"
      [] e.variant = "Other" -> e.code

\* AuthenticateErrorWithError::error
error(e) ==
    CASE e.variant = "SsoRequired" -> "sso_required"
      [] e.variant = "OrganizationAuthenticationMethodsRequired" ->
             "organization_authentication_methods_required"
      [] e.variant = "Other" -> e.error

\* the JSON objects of a 400 or 403 answer to authenticate: a `code`, an
\* `error`, both or neither, with the fields of one variant, `message` or
\* `error_description` alone, or no other field
ErrorBodies ==
    [code : {None} \cup {Some(snake_case(v.name)) :
                           v \in AuthenticateErrorWithCode \cup AuthenticateErrorWithError}
                   \cup {Some("password_strength_error")},
     error : {None, Some("sso_required"),
              Some("organization_authentication_methods_required"),
              Some("invalid_client")},
     fields : {v.fields : v \in AuthenticateErrorWithCode \cup AuthenticateErrorWithError}
              \cup {{}, {"error_description"},
                    {"error_description", "email", "sso_connection_ids",
                     "pending_authentication_token"}}]

\* authenticate_error.rs:275/282, self.json::<AuthenticateError>()
ApplyDeserializeAuthenticateError ==
    /\ pc = "idle"
    /\ \E body \in ErrorBodies :
          /\ request' = Some(body)
          /\ outcome' = Some(deserialize_authenticate_error(body))
    /\ pc' = "deserialize"
    /\ UNCHANGED <<workosBuilder, workos, tracing, op, execCount, transport, response,
                   stages, log, bodyReads>>

\* code() or error() on the error decoded; response keeps the error
ApplyCode ==
    /\ pc = "deserialize"
    /\ outcome.v.ok
    /\ response' = Some(outcome.v.v)
    /\ outcome' = Some(IF outcome.v.v.enum = "WithCode" THEN code(outcome.v.v)
                       ELSE error(outcome.v.v))
    /\ pc' = "code"
    /\ UNCHANGED <<workosBuilder, workos, tracing, op, request, execCount, transport,
                   stages, log, bodyReads>>

NextHelpers ==
    \/ ApplyDeserializeAuthenticateError
    \/ ApplyCode
    \/ ApplySanitizeHeaders
    \/ ApplySanitizeHeadersAgain
    \/ ApplyTruncateForLog
    \/ ApplySendBegin
    \/ ApplyCollectErrorChain
    \/ ApplyDeriveErrorHint

SpecHelpers == InitHelpers /\ [][NextHelpers]_vars

\* sanitize_headers has been applied to request.v.headers
Sanitized == pc = "sanitize_headers"

\* C23 as claimed: sanitize_headers returns one pair per header in the
\* original order, the value of every authorization header replaced by the
\* redaction token and the name and value of every other header unchanged.
C23_OnlyAuthorizationChanges ==
    Sanitized =>
        /\ Len(outcome.v) = Len(request.v.headers)
        /\ \A i \in 1..Len(outcome.v) :
              /\ outcome.v[i].name = request.v.headers[i].name
              /\ outcome.v[i].value =
                     IF request.v.headers[i].name = "authorization"
                     THEN Tok("<redacted>", 10)
                     ELSE request.v.headers[i].value.text

\* C23: sanitize_headers returns one pair per header in the original order
\* with every name unchanged; the value of every authorization header (in
\* whatever letter case it was given) is the redaction token, the value of
\* any other header is unchanged when it is text and is the non-text
\* placeholder when it is not.
C23_RedactsAuthorizationAndNonText ==
    Sanitized =>
        /\ Len(outcome.v) = Len(request.v.headers)
        /\ \A i \in 1..Len(outcome.v) :
              /\ outcome.v[i].name = request.v.headers[i].name
              /\ outcome.v[i].value =
                     IF request.v.headers[i].name = "authorization"
                     THEN Tok("<redacted>", 10)
                     ELSE IF request.v.headers[i].value.ascii
                          THEN request.v.headers[i].value.text
                          ELSE Tok("<non-utf8-value>", 16)

C23_Witness ==
    /\ Sanitized
    /\ Len(request.v.wire) = 3
    /\ request.v.wire[1].name = "x-trace"
    /\ request.v.wire[2].name = "Authorization"
    /\ request.v.wire[3].name = "content-type"
    /\ outcome.v[1].value = Tok("<non-utf8-value>", 16)
    /\ outcome.v[2] = [name |-> "authorization", value |-> Tok("<redacted>", 10)]
    /\ outcome.v[3].value = Lit("application/json")

\* C24: sanitizing a header collection made of the pairs sanitize_headers
\* returned gives the same pairs again, authorization headers and non-text
\* values included.
C24_SanitizeTwiceIsSanitizeOnce ==
    pc = "sanitize_headers_again" => outcome = response

C24_Witness ==
    /\ pc = "sanitize_headers_again"
    /\ outcome = response
    /\ \E i \in 1..Len(request.v.headers) :
          /\ request.v.headers[i].name = "authorization"
          /\ outcome.v[i].value = Tok("<redacted>", 10)
    /\ \E i \in 1..Len(request.v.headers) :
          /\ request.v.headers[i].name = "x-trace"
          /\ outcome.v[i].value = Tok("<non-utf8-value>", 16)

\* truncate_for_log has been applied to request.v.text and request.v.limit
Truncated == pc = "truncate_for_log"

\* C25: truncate_for_log returns the text itself when its byte length is at
\* most the limit; otherwise it returns a prefix of the text made of whole
\* characters, followed by the ellipsis, and the result has at most limit
\* plus the ellipsis length (3) bytes.
C25_TruncationKeepsWholeCharacters ==
    Truncated =>
        LET text == request.v.text
            limit == request.v.limit
            result == outcome.v
        IN  IF ByteLen(text) <= limit
            THEN result = text
            ELSE /\ Len(result) >= 1
                 /\ result[Len(result)] = Run("...", 3, 1)
                 /\ IsPrefixText(SubSeq(result, 1, Len(result) - 1), text)
                 /\ ByteLen(result) <= limit + 3

\* a text of 12 bytes cut at a limit of 5: the 3-byte character fits, the
\* first 4-byte character after it does not
C25_Witness ==
    /\ Truncated
    /\ request.v.text = <<Run("EUR", 3, 1), Run(":)", 4, 2)>>
    /\ request.v.limit = 5
    /\ outcome.v = <<Run("EUR", 3, 1), Run("...", 3, 1)>>

\* send has computed the preview of request.v.body and logged the request
Previewed == pc = "send_begin"

\* preview is the text cut to the longest prefix of whole characters within
\* 8192 bytes, the ellipsis after it
CutTo8192(preview, text) ==
    /\ Len(preview) >= 1
    /\ preview[Len(preview)] = Run("...", 3, 1)
    /\ IsPrefixText(SubSeq(preview, 1, Len(preview) - 1), text)
    /\ ByteLen(preview) - 3 <= 8192
    /\ ByteLen(preview) - 3 > 8192 - 4

\* C26: the preview send computes is None for a request without a body, the
\* placeholder "<non-replayable body>" for a streaming body, and otherwise
\* the body's text (lossily decoded), whole when it has at most 8192 bytes
\* and cut to 8192 bytes with the ellipsis after it when it has more; the
\* record logged shows that preview, and the request handed to the
\* transport is the request built, body included.
C26_PreviewLeavesBodyAlone ==
    Previewed =>
        LET body == request.v.body
            preview == outcome.v.request_body
        IN  /\ ~body.some => preview = None
            /\ (body.some /\ ~body.v.bytes.some) =>
                   preview = Some(Tok("<non-replayable body>", 21))
            /\ (body.some /\ body.v.bytes.some) =>
                   LET text == from_utf8_lossy(body.v.bytes.v)
                   IN  /\ preview.some
                       /\ IF ByteLen(text) <= 8192
                          THEN preview.v = text
                          ELSE CutTo8192(preview.v, text)
            /\ log = <<[event |-> "sending request", method |-> request.v.method,
                        url |-> request.v.url, request_headers |-> <<>>,
                        request_body |-> IF preview.some THEN preview.v
                                         ELSE Lit("<empty>")]>>
            /\ outcome.v.executed = Ok(request.v)

\* a body of 8000 bytes of text and 100 bytes that are not UTF-8: 8100
\* bytes, 8300 once decoded, cut to 8192
C26_Witness ==
    /\ Previewed
    /\ request.v.body = Some([bytes |-> Some(<<Run("a", 1, 8000), Run("<0xFF>", 1, 100)>>)])
    /\ outcome.v.request_body
           = Some(<<Run("a", 1, 8000), Run("<U+FFFD>", 3, 64), Run("...", 3, 1)>>)
    /\ outcome.v.executed.v.body = request.v.body

\* collect_error_chain has been applied to the error request.v
Collected == pc = "collect_error_chain"

\* the positions of the sources at which a run of equal messages starts
RunStarts(sources) ==
    {i \in 1..Len(sources) : i = 1 \/ sources[i] # sources[i - 1]}

\* C27: collect_error_chain returns the messages of the error's sources in
\* cause order, one entry for every run of equal consecutive messages; no
\* two adjacent entries are equal.
C27_ChainCollapsesConsecutiveDuplicates ==
    Collected =>
        LET sources == request.v.chain
            starts == RunStarts(sources)
            chain == outcome.v
        IN  /\ Len(chain) = Cardinality(starts)
            /\ \A k \in 1..Len(chain) :
                  \E i \in starts :
                      /\ Cardinality({j \in starts : j <= i}) = k
                      /\ chain[k] = sources[i]
            /\ \A k \in 1..(Len(chain) - 1) : chain[k] # chain[k + 1]

\* refused, refused, connect: one run of two, then one of one
C27_Witness ==
    /\ Collected
    /\ request.v.chain = <<Lit("Connection refused (os error 111)"),
                            Lit("Connection refused (os error 111)"),
                            Lit("client error (Connect)")>>
    /\ outcome.v = <<Lit("Connection refused (os error 111)"),
                      Lit("client error (Connect)")>>

\* derive_error_hint has been applied to the error request.v and the chain
\* response.v
Hinted == pc = "derive_error_hint"

\* the rules in the order claimed: the phrases looked for and the hint given
HintRules ==
    <<[phrases |-> {"timed out"},
       hint |-> "Connection timed out while contacting WorkOS"],
      [phrases |-> {"dns error", "failed to lookup address information",
                    "failed to resolve"},
       hint |-> "DNS resolution failed for the WorkOS endpoint"],
      [phrases |-> {"connection refused"},
       hint |-> "Remote host refused the TCP connection"],
      [phrases |-> {"certificate verify failed", "unable to get local issuer certificate"},
       hint |-> "TLS certificate verification failed; ensure the trust store is available"],
      [phrases |-> {"ossl_store_get0_loader_int", "unregistered scheme"},
       hint |-> "OpenSSL certificate store loader is unavailable; check OpenSSL providers/config"]>>

\* rule i matches the error: one of its phrases is in the lower-cased
\* top-level message or in a lower-cased message of the chain (the timeout
\* rule also matches an error that is a timeout)
RuleMatches(i) ==
    \/ i = 1 /\ request.v.kind = "timeout"
    \/ \E phrase \in HintRules[i].phrases :
          \/ phrase \in PhrasesOf(request.v.display[1].ch)
          \/ \E k \in 1..Len(response.v) : phrase \in PhrasesOf(response.v[k][1].ch)

\* C28: derive_error_hint returns the hint of the first rule that matches,
\* in the order timeout, DNS resolution failure, connection refused, TLS
\* certificate verification failure, TLS store unavailable, matching without
\* regard to letter case over the top-level message and the chain; it
\* returns None when no rule matches, and never more than one hint.
C28_FirstMatchingHint ==
    Hinted =>
        IF \E i \in 1..Len(HintRules) : RuleMatches(i)
        THEN \E i \in 1..Len(HintRules) :
                /\ RuleMatches(i)
                /\ \A j \in 1..(i - 1) : ~RuleMatches(j)
                /\ outcome.v = Some(HintRules[i].hint)
        ELSE outcome.v = None

\* a connect error whose chain names a DNS failure, then a timeout in capitals
C28_Witness ==
    /\ Hinted
    /\ request.v.kind = "connect"
    /\ request.v.display = Lit("error sending request")
    /\ response.v = <<Lit("dns error: failed to lookup address information"),
                       Lit("Operation Timed Out")>>
    /\ outcome.v = Some("Connection timed out while contacting WorkOS")

\* C29: code() on an AuthenticateErrorWithCode returns the `code` of the
\* body the error was deserialized from: the tag of the variant (its name in
\* snake_case), or for Other the code the body carries.
C29_CodeIsTheTagDeserialized ==
    (pc = "code" /\ response.v.enum = "WithCode") =>
        /\ outcome.v = request.v.code.v
        /\ response.v.variant # "Other" => outcome.v = snake_case(response.v.variant)

\* the body has the `error` tag of one of the two variants, no `code`, and
\* the fields that variant requires
TaggedByError(body, variant) ==
    /\ body.error = Some(snake_case(variant))
    /\ body.code = None
    /\ \E v \in AuthenticateErrorWithError : v.name = variant /\ v.fields \subseteq body.fields

\* C30: a body tagged by `error` with sso_required or
\* organization_authentication_methods_required and that variant's fields
\* is decoded to the SsoRequired or the
\* OrganizationAuthenticationMethodsRequired variant of
\* AuthenticateErrorWithError, not to Other.
C30_ErrorTagSelectsVariant ==
    pc = "deserialize" =>
        \A variant \in {"SsoRequired", "OrganizationAuthenticationMethodsRequired"} :
            TaggedByError(request.v, variant) =>
                /\ outcome.v.ok
                /\ outcome.v.v.enum = "WithError"
                /\ outcome.v.v.variant = variant
====
